---------------------------- MODULE Spec2Model ----------------------------
(*************************************************************************)
(* A model of the tokenization-and-caching pipeline of levanter-midi:    *)
(*   - concatenate_and_group_texts / _mask_overlap / _stack_batch_       *)
(*     encodings and TokenSeqDataset.__iter__   (src/levanter/data/text.py) *)
(*   - BatchTokenizer.__call__ / _merge_split_encodings                  *)
(*   - the chunk writer and ledger behind build_cache                    *)
(* Each component has its own specification (SpecSeq, SpecGroup,         *)
(* SpecTok, SpecCache); the variables of the other components stay at    *)
(* their idle values.                                                    *)
(*************************************************************************)
EXTENDS Integers, Sequences, FiniteSets, TLC

VARIABLES
    \* configuration shared by TokenSeqDataset and concatenate_and_group_texts
    seq_len,              \* self.seq_len / the seq_len argument
    stride,               \* self.stride / the stride argument; 0 stands for None
    \* TokenSeqDataset.__iter__
    extra_tokens,         \* <<>> for None, <<encoding>> for the carried slice
    yielded,              \* the arrays yielded so far, in order
    stream,               \* history: the input_ids of every document read so far
    doc_lens,             \* history: the token count of every document read so far
    it_state,             \* "idle" | "iterating" | "done" | "KeyError" | "AssertionError"
    \* one call of concatenate_and_group_texts, one step per yielded slice
    encoding,             \* the BatchEncoding argument
    drop_remainder,
    mask_stride_overlap,
    concatenated,         \* the local dict of flat arrays
    total_length,
    begin,                \* the next value of the loop variable
    slices,               \* what the generator has yielded, with the begin of each
    g_pc,                 \* "idle" | "start" | "loop" | "done"
    \* BatchTokenizer: the object's fields, then the locals of one __call__
    tok_appends_eos,      \* whether the wrapped tokenizer ends its output with eos
    tok_output,           \* what the wrapped tokenizer returns per fragment: a type name
    enforce_eos,          \* the constructor argument
    need_to_add_eos,      \* self._need_to_add_eos
    max_sentence_len,     \* self._max_sentence_len
    orig_batch,           \* the records of the batch read so far by the loop
    batch,                \* the flattened sentence fragments
    needs_merge,          \* the merge flags
    wc,                   \* the word counts
    frag_counts,          \* history: the sentence count of every surviving record
    tokenized,            \* what the tokenizer returned for `batch`
    result,               \* what __call__ returns
    t_pc,                 \* "idle" | "split" | "tokenized" | "done" | "IndexError"
    \* the cache build: durable state, then the writers' memory
    rows_total,           \* per shard, the number of rows its source stream holds
    chunk_files,          \* per shard, the chunk files on disk, by chunk index
    ledger,               \* the ledger file
    writer,               \* per shard, the writer task: pc, source position, buffer
    crashes,              \* the crashes so far
    handle,               \* what the last invocation of build returned
    \* a reader iterating the cache
    reader,               \* pc, the shard it reads and the chunks of it consumed
    delivered,            \* the chunks it was given, as <<shard, chunk index>>
    \* CausalLmDataset: the constructor arguments, then the locals of __iter__
    fcm_prob,             \* in tenths
    key,                  \* self.key: <<>> for None, else <<the key>>
    iter_key,             \* the local `key` of __iter__
    examples,             \* the subkey each yielded example was masked with
    lm_pc,                \* "idle" | "new" | "ValueError" | "ready" | "iterating" | "done"
    \* TokenizedDocumentCache.shard: the receiver, the arguments, the result
    flatten_docs,
    shard_index,
    num_shards,
    shard_ret,
    \* LMDatasetConfig: the configuration and its surroundings, then the results
    source_cfg,           \* id, the remote dataset's answer, the urls of the split
    ledger_on_disk,       \* whether the split's cache directory holds a ledger
    cache_ret,            \* what build_or_load_cache did and returned
    validation_ret,       \* what validation_sets returned
    \* a class with a cached_classproperty
    _cache,               \* self._cache of the descriptor: owner class -> value
    func_calls,           \* per owner class, the calls of the wrapped function
    accesses,             \* the accesses so far: owner class, how, value returned
    \* a dataset wrapper and a call of its shard()
    ds,                   \* the object shard() is called on
    ds_orig,              \* the object as it was constructed
    ds_args,              \* shard_id, num_shards
    ds_ret                \* what shard() returned

seqVars == <<extra_tokens, yielded, stream, doc_lens, it_state>>
groupVars == <<encoding, drop_remainder, mask_stride_overlap, concatenated, total_length, begin, slices, g_pc>>
cfgVars == <<seq_len, stride>>
tokCfgVars == <<tok_appends_eos, tok_output, enforce_eos, need_to_add_eos, max_sentence_len>>
tokVars == <<tokCfgVars, orig_batch, batch, needs_merge, wc, frag_counts, tokenized, result, t_pc>>
cacheVars == <<rows_total, chunk_files, ledger, writer, crashes, handle>>
readVars == <<reader, delivered>>
lmVars == <<fcm_prob, key, iter_key, examples, lm_pc>>
viewVars == <<flatten_docs, shard_index, num_shards, shard_ret>>
srcVars == <<source_cfg, ledger_on_disk, cache_ret, validation_ret>>
propVars == <<_cache, func_calls, accesses>>
wrapVars == <<ds, ds_orig, ds_args, ds_ret>>
extVars == <<readVars, lmVars, viewVars, srcVars, propVars, wrapVars>>

-----------------------------------------------------------------------------
(* Bounds of the model *)

MaxSeqLen == 3
MaxDocLen == 4
MaxDocs == 3
MaxTotalLen == 5
MaxBatchChars == 4
MaxRows == 3
MaxCrashes == 1
RowsPerChunk == 2
MaxExamples == 3
MaxShards == 4

\* seq_len values tried: every small one, and the 8 of the documented example
SeqLens == (1..MaxSeqLen) \cup {8}
\* seq_len values of a single call of concatenate_and_group_texts: every
\* small one, and 4, the least one for which the truncation of lines
\* 551-552 can cut below seq_len a total that holds a full window
GroupSeqLens == (1..MaxSeqLen) \cup {4}
\* document lengths tried: every small one, and the 10 and 15 of the example
DocLens == (0..MaxDocLen) \cup {10, 15}

-----------------------------------------------------------------------------
(* Arrays and BatchEncodings.                                            *)
(* A BatchEncoding is a function from field names to values.  A value is *)
(* tagged with its rank, as the code tests it (isinstance(x[0], ...)):   *)
(* nd = 1 is a flat array of tokens, nd = 2 a list of rows.              *)

Arr1(s) == [nd |-> 1, v |-> s]
Arr2(rows) == [nd |-> 2, v |-> rows]

Min(a, b) == IF a < b THEN a ELSE b

\* Python's s[b:e] for 0 <= b
Slice(s, b, e) == SubSeq(s, b + 1, Min(e, Len(s)))

\* list(chain(*v)): the rows of v one after the other
RECURSIVE Chain(_)
Chain(rows) ==
    IF rows = <<>> THEN <<>> ELSE Head(rows) \o Chain(Tail(rows))

\* Python's range(0, stop, step) as a sequence
RECURSIVE RangeFrom(_, _, _)
RangeFrom(start, stop, step) ==
    IF start >= stop THEN <<>> ELSE <<start>> \o RangeFrom(start + step, stop, step)

\* the sentinel default of _mask_overlap
Sentinel == -100

-----------------------------------------------------------------------------
(* _mask_overlap(labels, target_len, stride).  The labels argument is a  *)
(* numpy view of one array of `concatenated`: the pair (store, begin).   *)
(* The result names the masked labels and what the viewed array holds    *)
(* after the call; copy.deepcopy makes the write go to a copy.           *)

MaskedPrefix(view, target_len, strd) ==
    [i \in 1..Len(view) |-> IF i <= target_len - strd THEN Sentinel ELSE view[i]]

\* a _mask_overlap without the deepcopy: the write goes through the view
MaskOverlapInPlace(store, b, target_len, strd) ==
    LET view == Slice(store, b, b + target_len)
    IN  [labels |-> MaskedPrefix(view, target_len, strd),
         store  |-> [i \in 1..Len(store) |->
                        IF i > b /\ i <= b + target_len - strd THEN Sentinel ELSE store[i]]]

\* a _mask_overlap that masks `stride` positions instead of target_len - stride
MaskOverlapStride(store, b, target_len, strd) ==
    [labels |-> MaskedPrefix(Slice(store, b, b + target_len), strd, 0), store |-> store]

_mask_overlap(store, b, target_len, strd) ==
    [labels |-> MaskedPrefix(Slice(store, b, b + target_len), target_len, strd),
     store  |-> store]

-----------------------------------------------------------------------------
(* concatenate_and_group_texts *)

\* line 546: every field flattened into one array
Concatenate(enc) == [k \in DOMAIN enc |-> Chain(enc[k].v)]

\* line 548: stride = stride or seq_len
EffectiveStride(strd, slen) == IF strd = 0 THEN slen ELSE strd

\* lines 551-552
TotalLength(len, slen, strd, drop) ==
    IF drop /\ len % strd # 0
    THEN ((len - slen + strd) \div strd) * strd
    ELSE len

\* a range that runs one stride too far
RangeStopWide(total, slen, strd) == total - slen + 2 * strd

\* line 556: the stop value of the range
RangeStop(total, slen, strd) == total - slen + strd

\* line 557: v[begin : begin + seq_len]
Window(arr, b, slen, strd) == Slice(arr, b, b + slen)

\* the field `labels` is taken from: data.get("labels", data["input_ids"])
LabelSource(conc) == IF "labels" \in DOMAIN conc THEN "labels" ELSE "input_ids"

\* one turn of the loop, lines 557-565, with `strd` the effective stride.
\* The slices of data are views: they are read when the slice is yielded.
GroupStep(conc, b, slen, strd, mask) ==
    LET masks  == mask /\ strd # slen
        src    == LabelSource(conc)
        m      == IF masks /\ b # 0
                  THEN _mask_overlap(conc[src], b, slen, strd)
                  ELSE [labels |-> Window(conc[src], b, slen, strd), store |-> conc[src]]
        conc2  == [conc EXCEPT ![src] = m.store]
        fields == IF masks THEN DOMAIN conc \cup {"labels"} ELSE DOMAIN conc
        data   == [k \in fields |->
                      IF masks /\ k = "labels" THEN m.labels
                      ELSE Window(conc2[k], b, slen, strd)]
    IN  [slice |-> data, conc |-> conc2]

\* the turns of the loop for the begins from index i on
RECURSIVE GroupFrom(_, _, _, _, _, _)
GroupFrom(conc, begins, i, slen, strd, mask) ==
    IF i > Len(begins) THEN <<>>
    ELSE LET r == GroupStep(conc, begins[i], slen, strd, mask)
         IN  <<r.slice>> \o GroupFrom(r.conc, begins, i + 1, slen, strd, mask)

\* the whole generator: every slice it yields, in order
concatenate_and_group_texts(enc, slen, strd, drop, mask) ==
    LET conc  == Concatenate(enc)
        s     == EffectiveStride(strd, slen)
        total == TotalLength(Len(conc["input_ids"]), slen, s, drop)
    IN  GroupFrom(conc, RangeFrom(0, RangeStop(total, slen, s), s), 1, slen, s, mask)

-----------------------------------------------------------------------------
(* _stack_batch_encodings *)

\* lines 585-591
_ensure_batched(x) ==
    IF Len(x.v) = 0 THEN <<>>
    ELSE IF x.nd = 2 THEN x.v
    ELSE <<x.v>>

\* b[k] raises KeyError for a key of a that b lacks
StackRaisesKeyError(a, b) == \E k \in DOMAIN a : k \notin DOMAIN b

\* a stacking that puts the new document before the carried tokens
StackSwapped(a, b) ==
    [k \in DOMAIN a |-> Arr2(_ensure_batched(b[k]) \o _ensure_batched(a[k]))]

\* line 593
_stack_batch_encodings(a, b) ==
    [k \in DOMAIN a |-> Arr2(_ensure_batched(a[k]) \o _ensure_batched(b[k]))]


-----------------------------------------------------------------------------
(* TokenSeqDataset.__iter__ *)

\* an encoded slice as the BatchEncoding the generator yields: flat arrays
AsEncoding(slice) == [k \in DOMAIN slice |-> Arr1(slice[k])]

\* a loop body that yields every slice, short ones included
IterStepYieldAll(st, slice, slen) ==
    [st EXCEPT !.extra = <<>>, !.out = Append(st.out, slice["input_ids"])]

\* lines 155-161: the body of the inner loop for one encoded_slice
IterStep(st, slice, slen) ==
    IF st.failed THEN st
    ELSE IF Len(slice["input_ids"]) < slen
         THEN IF st.extra # <<>>
              THEN [st EXCEPT !.failed = TRUE]                  \* assert extra_tokens is None
              ELSE [st EXCEPT !.extra = <<AsEncoding(slice)>>]
         ELSE [st EXCEPT !.extra = <<>>, !.out = Append(st.out, slice["input_ids"])]

\* line 154: the inner loop over the slices of one (stacked) document
RECURSIVE IterSlices(_, _, _, _)
IterSlices(st, sl, i, slen) ==
    IF i > Len(sl) THEN st
    ELSE IterSlices(IterStep(st, sl[i], slen), sl, i + 1, slen)

\* a document of the cache as TokenizedDocumentCache yields it with
\* flatten_docs: one row per field, and the fields the tokenizer produced
\* (BatchTokenizer asks for no attention mask: input_ids only)
DocOf(ids) == [input_ids |-> Arr2(<<ids>>)]

\* Tokens are never inspected by the windowing code, so each token of the
\* model is its position in the stream: every token is distinguishable.
FreshIds(n) == [i \in 1..n |-> Len(stream) + i]

IdleCache ==
    /\ rows_total = <<>>
    /\ chunk_files = <<>>
    /\ ledger = <<>>
    /\ writer = <<>>
    /\ crashes = 0
    /\ handle = <<>>

IdleRead ==
    /\ reader = [pc |-> "detached", shard |-> 1, chunk |-> 0]
    /\ delivered = <<>>

IdleLm ==
    /\ fcm_prob = 0
    /\ key = <<>>
    /\ iter_key = <<>>
    /\ examples = <<>>
    /\ lm_pc = "idle"

IdleView ==
    /\ flatten_docs = FALSE
    /\ shard_index = 0
    /\ num_shards = 0
    /\ shard_ret = <<>>

IdleSrc ==
    /\ source_cfg = <<>>
    /\ ledger_on_disk = FALSE
    /\ cache_ret = <<>>
    /\ validation_ret = <<>>

IdleProp ==
    /\ _cache = <<>>
    /\ func_calls = <<>>
    /\ accesses = <<>>

IdleWrap ==
    /\ ds = <<>>
    /\ ds_orig = <<>>
    /\ ds_args = <<>>
    /\ ds_ret = <<>>

IdleExt == IdleRead /\ IdleLm /\ IdleView /\ IdleSrc /\ IdleProp /\ IdleWrap

IdleTok ==
    /\ tok_appends_eos = FALSE
    /\ tok_output = "list"
    /\ enforce_eos = FALSE
    /\ need_to_add_eos = FALSE
    /\ max_sentence_len = 0
    /\ orig_batch = <<>>
    /\ batch = <<>>
    /\ needs_merge = <<>>
    /\ wc = <<>>
    /\ frag_counts = <<>>
    /\ tokenized = <<>>
    /\ result = <<>>
    /\ t_pc = "idle"

IdleGroup ==
    /\ encoding = <<>>
    /\ drop_remainder = FALSE
    /\ mask_stride_overlap = FALSE
    /\ concatenated = <<>>
    /\ total_length = 0
    /\ begin = 0
    /\ slices = <<>>
    /\ g_pc = "idle"

IdleSeq ==
    /\ extra_tokens = <<>>
    /\ yielded = <<>>
    /\ stream = <<>>
    /\ doc_lens = <<>>
    /\ it_state = "idle"

\* TokenSeqDataset(doc_cache, seq_len, stride) and the start of __iter__ (line 146)
InitSeq ==
    /\ seq_len \in SeqLens
    /\ stride \in 0..seq_len
    /\ extra_tokens = <<>>
    /\ yielded = <<>>
    /\ stream = <<>>
    /\ doc_lens = <<>>
    /\ it_state = "iterating"
    /\ IdleGroup
    /\ IdleTok
    /\ IdleCache
    /\ IdleExt

\* lines 147-161: the cache delivers a document of n tokens
NextDoc(n) ==
    /\ it_state = "iterating"
    /\ Len(doc_lens) < MaxDocs
    /\ LET ids == FreshIds(n)
           doc == DocOf(ids)
       IN  /\ stream' = stream \o ids
           /\ doc_lens' = Append(doc_lens, n)
           /\ IF extra_tokens # <<>> /\ StackRaisesKeyError(extra_tokens[1], doc)
              THEN /\ it_state' = "KeyError"
                   /\ UNCHANGED <<extra_tokens, yielded>>
              ELSE LET buffered == IF extra_tokens # <<>>
                                   THEN _stack_batch_encodings(extra_tokens[1], doc)
                                   ELSE doc
                       sl == concatenate_and_group_texts(buffered, seq_len, stride, FALSE, TRUE)
                       st == IterSlices([extra |-> <<>>, out |-> yielded, failed |-> FALSE],
                                        sl, 1, seq_len)
                   IN  /\ extra_tokens' = st.extra
                       /\ yielded' = st.out
                       /\ it_state' = IF st.failed THEN "AssertionError" ELSE "iterating"
    /\ UNCHANGED <<cfgVars, groupVars, tokVars, cacheVars, extVars>>

\* the document cache is exhausted: the generator returns
EndOfStream ==
    /\ it_state = "iterating"
    /\ it_state' = "done"
    /\ UNCHANGED <<extra_tokens, yielded, stream, doc_lens, cfgVars, groupVars, tokVars, cacheVars, extVars>>

NextSeq == (\E n \in DocLens : NextDoc(n)) \/ EndOfStream

vars == <<cfgVars, seqVars, groupVars, tokVars, cacheVars, extVars>>

SpecSeq == InitSeq /\ [][NextSeq]_vars

-----------------------------------------------------------------------------
(* Properties of TokenSeqDataset *)

\* the input_ids carried over, <<>> when there is no carry
Carry == IF extra_tokens = <<>> THEN <<>> ELSE extra_tokens[1]["input_ids"].v

Range(s) == {s[i] : i \in 1..Len(s)}

\* C1: with stride unset, a stream of L tokens gives exactly floor(L/S)
\* windows which, concatenated in order, are the first floor(L/S)*S tokens.
C1_RoundTrip ==
    (it_state # "idle" /\ stride = 0) =>
        /\ it_state \in {"iterating", "done"}
        /\ Len(yielded) = Len(stream) \div seq_len
        /\ Chain(yielded) = SubSeq(stream, 1, (Len(stream) \div seq_len) * seq_len)

\* the documented example: documents of 10 and 15 tokens, seq_len 8
C1_Witness ==
    /\ it_state = "done" /\ stride = 0 /\ seq_len = 8
    /\ doc_lens = <<10, 15>>
    /\ yielded = <<SubSeq(stream, 1, 8), SubSeq(stream, 9, 16), SubSeq(stream, 17, 24)>>

\* C2: every yielded array has exactly seq_len tokens
C2_FixedLength ==
    \A i \in 1..Len(yielded) : Len(yielded[i]) = seq_len

\* a run with overlap, an empty document and a document shorter than seq_len
C2_Witness ==
    /\ stride > 0 /\ stride < seq_len
    /\ Len(yielded) >= 2
    /\ \E i, j \in 1..Len(doc_lens) : doc_lens[i] = 0 /\ doc_lens[j] \in 1..(seq_len - 1)

\* C3: no token is silently dropped and no error is raised: while the
\* stream lasts, the carry-over is the tail of what was read and every
\* token before it lies in a yielded window.
C3_NoTokenDropped ==
    /\ it_state \notin {"KeyError", "AssertionError"}
    /\ it_state = "iterating" =>
          /\ Carry = SubSeq(stream, Len(stream) - Len(Carry) + 1, Len(stream))
          /\ \A p \in 1..(Len(stream) - Len(Carry)) :
                \E i \in 1..Len(yielded) : stream[p] \in Range(yielded[i])


-----------------------------------------------------------------------------
(* One call of concatenate_and_group_texts, a step per yielded slice *)

\* The encodings tried: L tokens 1..L in two rows cut at `cut`; with no
\* labels field (m = -1) or with one whose first m entries already hold
\* the sentinel, as the labels of a slice masked by an earlier call do.
IdsOf(L) == [i \in 1..L |-> i]
LabelsOf(L, m) == [i \in 1..L |-> IF i <= m THEN Sentinel ELSE i]
TwoRows(s, cut) == Arr2(<<SubSeq(s, 1, cut), SubSeq(s, cut + 1, Len(s))>>)

EncodingOf(L, cut, m) ==
    IF m < 0
    THEN [input_ids |-> TwoRows(IdsOf(L), cut)]
    ELSE [input_ids |-> TwoRows(IdsOf(L), cut), labels |-> TwoRows(LabelsOf(L, m), cut)]

InitGroup ==
    /\ seq_len \in GroupSeqLens
    /\ stride \in 0..seq_len
    /\ drop_remainder \in BOOLEAN
    /\ mask_stride_overlap \in BOOLEAN
    /\ \E L \in 0..MaxTotalLen : \E cut \in 0..L : \E m \in (-1)..L :
          encoding = EncodingOf(L, cut, m)
    /\ concatenated = <<>>
    /\ total_length = 0
    /\ begin = 0
    /\ slices = <<>>
    /\ g_pc = "start"
    /\ IdleSeq
    /\ IdleTok
    /\ IdleCache
    /\ IdleExt

\* lines 546-552
GroupStart ==
    /\ g_pc = "start"
    /\ concatenated' = Concatenate(encoding)
    /\ total_length' = TotalLength(Len(Concatenate(encoding)["input_ids"]), seq_len,
                                   EffectiveStride(stride, seq_len), drop_remainder)
    /\ begin' = 0
    /\ g_pc' = "loop"
    /\ UNCHANGED <<encoding, drop_remainder, mask_stride_overlap, slices, cfgVars, seqVars, tokVars, cacheVars, extVars>>

\* lines 556-565: one turn of the loop, up to the yield
YieldSlice ==
    /\ g_pc = "loop"
    /\ begin < RangeStop(total_length, seq_len, EffectiveStride(stride, seq_len))
    /\ LET r == GroupStep(concatenated, begin, seq_len, EffectiveStride(stride, seq_len),
                          mask_stride_overlap)
       IN  /\ slices' = Append(slices, [begin |-> begin, data |-> r.slice])
           /\ concatenated' = r.conc
    /\ begin' = begin + EffectiveStride(stride, seq_len)
    /\ UNCHANGED <<encoding, drop_remainder, mask_stride_overlap, total_length, g_pc,
                   cfgVars, seqVars, tokVars, cacheVars, extVars>>

\* the range is exhausted: the generator returns
GroupEnd ==
    /\ g_pc = "loop"
    /\ begin >= RangeStop(total_length, seq_len, EffectiveStride(stride, seq_len))
    /\ g_pc' = "done"
    /\ UNCHANGED <<encoding, drop_remainder, mask_stride_overlap, concatenated, total_length,
                   begin, slices, cfgVars, seqVars, tokVars, cacheVars, extVars>>

NextGroup == GroupStart \/ YieldSlice \/ GroupEnd

SpecGroup == InitGroup /\ [][NextGroup]_vars

-----------------------------------------------------------------------------
(* Properties of concatenate_and_group_texts *)

Stride == EffectiveStride(stride, seq_len)
Masking == mask_stride_overlap /\ Stride < seq_len

\* the flat arrays of the argument, computed apart from the loop
OrigIds == Chain(encoding["input_ids"].v)
OrigLabels == IF "labels" \in DOMAIN encoding THEN Chain(encoding["labels"].v) ELSE OrigIds

\* the labels of slice i: the sentinel on the first seq_len - stride
\* positions of every slice after the first, and `orig` everywhere else
LabelsAre(i, orig) ==
    LET w == slices[i]
    IN  /\ "labels" \in DOMAIN w.data
        /\ Len(w.data["labels"]) = Len(w.data["input_ids"])
        /\ i > 1 => Len(w.data["labels"]) >= seq_len - Stride
        /\ \A j \in 1..Len(w.data["labels"]) :
              w.data["labels"][j] =
                 IF i > 1 /\ j <= seq_len - Stride THEN Sentinel ELSE orig[w.begin + j]

\* C4 as stated: the unmasked labels equal the input_ids
C4_LabelsEqualInputIds ==
    Masking => \A i \in 1..Len(slices) : LabelsAre(i, OrigIds)

\* C4, amended: with stride < seq_len and mask_stride_overlap, the labels
\* at positions 0 .. seq_len-stride-1 of every slice after the first are
\* the sentinel; every other label is the value at that position of the
\* encoding's own labels field when it has one, of input_ids otherwise.
C4_OverlapMasked ==
    Masking => \A i \in 1..Len(slices) : LabelsAre(i, OrigLabels)

\* three slices were yielded from an encoding that brings its own labels
C4_Witness ==
    /\ Masking /\ g_pc = "done" /\ Len(slices) >= 3
    /\ "labels" \in DOMAIN encoding /\ OrigLabels # OrigIds

\* C5: masking never changes input_ids: every slice's input_ids (and every
\* field that is not the masked labels) is the slice [begin, begin+seq_len)
\* of the concatenated argument, and the arrays the later slices are cut
\* from are what they were before any masking.
C5_InputIdsNeverMasked ==
    /\ g_pc \in {"loop", "done"} => concatenated = Concatenate(encoding)
    /\ \A i \in 1..Len(slices) :
          LET w == slices[i]
          IN  /\ w.data["input_ids"] = Slice(OrigIds, w.begin, w.begin + seq_len)
              /\ \A k \in DOMAIN w.data :
                    (k # "labels" \/ ~Masking) =>
                        /\ k \in DOMAIN encoding
                        /\ w.data[k] = Slice(Chain(encoding[k].v), w.begin, w.begin + seq_len)

\* labels were masked on a view of input_ids, and a later slice overlaps it
C5_Witness ==
    /\ Masking /\ "labels" \notin DOMAIN encoding
    /\ Len(slices) >= 3
    /\ slices[2].data["labels"][1] = Sentinel
    /\ slices[3].data["input_ids"][1] = slices[2].data["input_ids"][1 + Stride]


-----------------------------------------------------------------------------
(* Strings.  A string is a sequence of one-character strings.            *)

Whitespace == {" ", "\n"}
Terminators == {".", "!", "?"}

\* str.split(): the maximal runs of non-whitespace, in order
RECURSIVE SplitWordsFrom(_, _, _)
SplitWordsFrom(s, i, cur) ==
    IF i > Len(s) THEN (IF cur = <<>> THEN <<>> ELSE <<cur>>)
    ELSE IF s[i] \in Whitespace
         THEN (IF cur = <<>> THEN <<>> ELSE <<cur>>) \o SplitWordsFrom(s, i + 1, <<>>)
         ELSE SplitWordsFrom(s, i + 1, Append(cur, s[i]))

SplitWords(s) == SplitWordsFrom(s, 1, <<>>)

\* str.replace of the two characters a b by c d, left to right
RECURSIVE Replace2From(_, _, _, _, _, _)
Replace2From(s, i, a, b, c, d) ==
    IF i > Len(s) THEN <<>>
    ELSE IF i < Len(s) /\ s[i] = a /\ s[i + 1] = b
         THEN <<c, d>> \o Replace2From(s, i + 2, a, b, c, d)
         ELSE <<s[i]>> \o Replace2From(s, i + 1, a, b, c, d)

Replace2(s, a, b, c, d) == Replace2From(s, 1, a, b, c, d)

\* lines 372-377: a terminator before a closing quote is moved behind it
Normalize(d) ==
    LET d1 == Replace2(d,  ".", "\"", "\"", ".")
        d2 == Replace2(d1, ".", "'",  "'",  ".")
        d3 == Replace2(d2, "?", "\"", "\"", "?")
        d4 == Replace2(d3, "!", "\"", "\"", "!")
        d5 == Replace2(d4, "?", "'",  "'",  "?")
    IN  Replace2(d5, "!", "'", "'", "!")

\* the index of the first non-whitespace character from i on, Len(s)+1 if none
RECURSIVE SkipWhitespace(_, _)
SkipWhitespace(s, i) ==
    IF i > Len(s) \/ s[i] \notin Whitespace THEN i ELSE SkipWhitespace(s, i + 1)

\* line 381: re.split(r'(?<=[.!?])\s+', d)
RECURSIVE ReSplitFrom(_, _, _)
ReSplitFrom(s, i, cur) ==
    IF i > Len(s) THEN <<cur>>
    ELSE IF s[i] \in Whitespace /\ i > 1 /\ s[i - 1] \in Terminators
         THEN <<cur>> \o ReSplitFrom(s, SkipWhitespace(s, i), <<>>)
         ELSE ReSplitFrom(s, i + 1, Append(cur, s[i]))

ReSplit(s) == ReSplitFrom(s, 1, <<>>)

Last(s) == s[Len(s)]

\* line 379: the test that makes the loop skip the record.  "IndexError"
\* when an index of the test is out of range: d[-1] of an empty record,
\* or [-1] of the empty word list of a record of whitespace only.
SkipTest(d) ==
    IF d = <<>> THEN "IndexError"
    ELSE IF Last(d) = "\n"
         THEN IF SplitWords(SubSeq(d, 1, Len(d) - 1)) = <<>> THEN "IndexError"
              ELSE IF Last(Last(SplitWords(SubSeq(d, 1, Len(d) - 1)))) \notin Terminators
                   THEN "skip"
                   ELSE IF Last(Last(SplitWords(d))) \notin Terminators THEN "skip" ELSE "keep"
         ELSE IF SplitWords(d) = <<>> THEN "IndexError"
              ELSE IF Last(Last(SplitWords(d))) \notin Terminators THEN "skip" ELSE "keep"

\* a prefixing that leaves the first sentence of the record as it is
LeadingSpaceNotFirst(pieces, i) ==
    IF i > 1 /\ pieces[i][1] # " " THEN <<" ">> \o pieces[i] ELSE pieces[i]

\* lines 385-386: the sentence gets a leading space unless it has one
LeadingSpace(pieces, i) ==
    IF pieces[i][1] # " " THEN <<" ">> \o pieces[i] ELSE pieces[i]

\* lines 381-387: the sentences of a record
RECURSIVE SentencesFrom(_, _)
SentencesFrom(pieces, i) ==
    IF i > Len(pieces) THEN <<>>
    ELSE (IF Len(pieces[i]) > 0 THEN <<LeadingSpace(pieces, i)>> ELSE <<>>)
         \o SentencesFrom(pieces, i + 1)

Sentences(d) == SentencesFrom(ReSplit(d), 1)

\* line 388
WordCounts(sentences) == [i \in 1..Len(sentences) |-> Len(SplitWords(sentences[i]))]

Repeat(x, n) == [i \in 1..n |-> x]

\* flags that mark the synthetic eos fragment as the start of a record
RecordFlagsEosFalse(k, eos) ==
    <<FALSE>> \o Repeat(TRUE, k - 1) \o Repeat(FALSE, eos)

\* lines 399-406: the merge flags of a record of k sentences
RecordFlags(k, eos) ==
    <<FALSE>> \o Repeat(TRUE, k - 1) \o Repeat(TRUE, eos)

-----------------------------------------------------------------------------
(* The wrapped tokenizer is external.  The model's tokenizer gives one   *)
(* id per character, so the text that was tokenized can be read off the  *)
(* tokens; the string eos_token is the single character "<eos>".  A      *)
(* tokenizer that appends eos itself also returns token_type_ids.        *)

Alphabet ==
    <<" ", "\n", ".", "!", "?", "\"", "'", "a",
      "H", "e", "l", "o", "w", "r", "d", "T", "h", "i", "s", "t">>

EosTokenId == 50
EosToken == <<"<eos>">>

CharId(c) == IF c = "<eos>" THEN EosTokenId
             ELSE CHOOSE i \in 1..Len(Alphabet) : Alphabet[i] = c

Tokens(s, appends) ==
    [i \in 1..Len(s) |-> CharId(s[i])] \o (IF appends THEN <<EosTokenId>> ELSE <<>>)

\* line 416: self.tokenizer(batch, return_attention_mask=False, verbose=False)
TokenizerCall(b, appends) ==
    IF appends
    THEN [input_ids      |-> [i \in 1..Len(b) |-> Tokens(b[i], appends)],
          token_type_ids |-> [i \in 1..Len(b) |-> Repeat(0, Len(b[i]) + 1)]]
    ELSE [input_ids      |-> [i \in 1..Len(b) |-> Tokens(b[i], appends)]]

\* a constructor that skips the probe and trusts enforce_eos
ShouldAppendEosUnprobed(enforce, appends) == enforce

\* lines 345-349: the probe of the constructor
ShouldAppendEos(enforce, appends) ==
    IF enforce
    THEN Last(Tokens(<<"h", "i", " ", "t", "h", "e", "r", "e">>, appends)) # EosTokenId
    ELSE FALSE

MAX_SENTENCE_LEN == 1024

-----------------------------------------------------------------------------
(* _merge_split_encodings, the branch for list-valued fields *)

\* a rule that prefixes every fragment, the eos fragment included
PrefixedAlways(count, frag, eos, maxlen) == count < maxlen

\* a rule that still prefixes a fragment of max_sentence_len words
PrefixedInclusive(count, frag, eos, maxlen) == count <= maxlen /\ frag[1] # eos

\* lines 473-474: whether fragment frag gets the boundary token in front
Prefixed(count, frag, eos, maxlen) == count < maxlen /\ frag[1] # eos

\* a merge step that never closes the record at a False flag
MergeStepNoFlush(acc, frag, flag, count, eos, maxlen) ==
    [out |-> acc.out,
     cur |-> Append(acc.cur, IF Prefixed(count, frag, eos, maxlen)
                             THEN <<count + eos + 1>> \o frag ELSE frag)]

\* lines 469-483: one turn of the loop over the fragments
MergeStep(acc, frag, flag, count, eos, maxlen) ==
    LET out1  == IF ~flag /\ Len(acc.cur) > 0 THEN Append(acc.out, Chain(acc.cur)) ELSE acc.out
        cur1  == IF ~flag THEN <<>> ELSE acc.cur
        piece == IF Prefixed(count, frag, eos, maxlen)
                 THEN <<count + eos + 1>> \o frag
                 ELSE frag
    IN  [out |-> out1, cur |-> Append(cur1, piece)]

RECURSIVE MergeFrom(_, _, _, _, _, _, _)
MergeFrom(acc, v, i, flags, counts, eos, maxlen) ==
    IF i > Len(flags) THEN acc
    ELSE MergeFrom(MergeStep(acc, v[i], flags[i], counts[i], eos, maxlen),
                   v, i + 1, flags, counts, eos, maxlen)

\* lines 465-487: one field
MergeField(v, flags, counts, eos, maxlen) ==
    LET acc == MergeFrom([out |-> <<>>, cur |-> <<>>], v, 1, flags, counts, eos, maxlen)
    IN  IF Len(acc.cur) > 0 THEN Append(acc.out, Chain(acc.cur)) ELSE acc.out

\* the types of value a tokenizer may return per fragment: the list and
\* the array _merge_split_encodings knows, and one it does not
OutputTypes == {"list", "ndarray", "tuple"}

\* lines 455-456 on an array: [sentence_len] + v[i] is numpy's elementwise
\* sum of the array and the one-element list
ArrayPlus(sentence_len, frag) == [x \in 1..Len(frag) |-> sentence_len + frag[x]]

\* lines 446-457: one turn of the loop of the array branch; np.concatenate
\* raises ValueError when it is given no array
ArrayStep(acc, frag, flag, count, eos, maxlen) ==
    IF acc.raised # "" THEN acc
    ELSE IF ~flag /\ acc.cur = <<>>
    THEN [acc EXCEPT !.raised = "ValueError: need at least one array to concatenate"]
    ELSE LET out1  == IF ~flag THEN Append(acc.out, Chain(acc.cur)) ELSE acc.out
             cur1  == IF ~flag THEN <<>> ELSE acc.cur
             piece == IF Prefixed(count, frag, eos, maxlen)
                      THEN ArrayPlus(count + eos + 1, frag)
                      ELSE frag
         IN  [raised |-> "", out |-> out1, cur |-> Append(cur1, piece)]

RECURSIVE ArrayFrom(_, _, _, _, _, _, _)
ArrayFrom(acc, v, i, flags, counts, eos, maxlen) ==
    IF i > Len(flags) THEN acc
    ELSE ArrayFrom(ArrayStep(acc, v[i], flags[i], counts[i], eos, maxlen),
                   v, i + 1, flags, counts, eos, maxlen)

\* lines 443-464: one field of arrays
ArrayField(v, flags, counts, eos, maxlen) ==
    LET acc == ArrayFrom([raised |-> "", out |-> <<>>, cur |-> <<>>],
                         v, 1, flags, counts, eos, maxlen)
    IN  IF acc.raised # "" THEN [raised |-> acc.raised, out |-> <<>>]
        ELSE [raised |-> "",
              out |-> IF Len(acc.cur) > 0 THEN Append(acc.out, Chain(acc.cur)) ELSE acc.out]

\* a merge that handles a value of an unknown type as if it were a list
MergeUnknownAsList(kind, b, enc, flags, counts, eos, maxlen) ==
    [raised   |-> "",
     encoding |-> [k \in {f \in DOMAIN enc : Len(enc[f]) # 0} |->
                      MergeField(enc[k], flags, counts, eos, maxlen)]]

\* lines 430-490; the loop runs over range(len(batch)): flags stands for it.
\* kind is the type of the values of the fields; an error raised for one
\* field ends the call
_merge_split_encodings(kind, b, enc, flags, counts, eos, maxlen) ==
    LET fields == {f \in DOMAIN enc : Len(enc[f]) # 0}
    IN  IF fields = {} THEN [raised |-> "", encoding |-> <<>>]
        ELSE IF kind = "ndarray"
        THEN LET r == [k \in fields |-> ArrayField(enc[k], flags, counts, eos, maxlen)]
             IN  IF \E k \in fields : r[k].raised # ""
                 THEN [raised |-> (CHOOSE e \in {r[k].raised : k \in fields} : e # ""),
                       encoding |-> <<>>]
                 ELSE [raised |-> "", encoding |-> [k \in fields |-> r[k].out]]
        ELSE IF kind = "list"
        THEN [raised   |-> "",
              encoding |-> [k \in fields |-> MergeField(enc[k], flags, counts, eos, maxlen)]]
        ELSE [raised |-> "ValueError: Unknown type", encoding |-> <<>>]

-----------------------------------------------------------------------------
(* BatchTokenizer.__call__, a step per record of the batch *)

GenChars == {"a", " ", "."}

Example ==
    <<"H", "e", "l", "l", "o", " ", "w", "o", "r", "l", "d", ".", " ",
      "T", "h", "i", "s", " ", "i", "s", " ", "a", " ", "t", "e", "s", "t", ".">>

\* records beyond the generated ones: the documented example, a trailing
\* newline, a closing quote, other terminators, whitespace only
ExtraRecords ==
    { Example,
      <<"a", ".", "\n">>,
      <<"a", "\n">>,
      <<"a", ".", "\"">>,
      <<"a", "?", " ", "a", "!">>,
      <<"\n">> }

\* a record costs its length, and never more than the whole budget
Cost(d) == Min(Len(d), MaxBatchChars)

RECURSIVE Used(_)
Used(records) == IF records = <<>> THEN 0 ELSE Cost(Head(records)) + Used(Tail(records))

RecordsWithin(n) ==
    UNION {[1..k -> GenChars] : k \in 0..n} \cup {e \in ExtraRecords : Cost(e) <= n}

\* BatchTokenizer(tokenizer, enforce_eos, _max_sentence_len=...), lines 328-357
InitTok ==
    /\ tok_appends_eos \in BOOLEAN
    /\ tok_output \in OutputTypes
    /\ enforce_eos \in BOOLEAN
    /\ need_to_add_eos = ShouldAppendEos(enforce_eos, tok_appends_eos)
    /\ max_sentence_len \in {2, MAX_SENTENCE_LEN}
    /\ orig_batch = <<>>
    /\ batch = <<>>
    /\ needs_merge = <<>>
    /\ wc = <<>>
    /\ frag_counts = <<>>
    /\ tokenized = <<>>
    /\ result = <<>>
    /\ t_pc = "split"
    /\ seq_len = 0
    /\ stride = 0
    /\ IdleSeq
    /\ IdleGroup
    /\ IdleCache
    /\ IdleExt

\* lines 369-411: the loop body for the record d
SplitRecord(d) ==
    /\ t_pc = "split"
    /\ orig_batch' = Append(orig_batch, d)
    /\ LET n == Normalize(d)
           sentences == Sentences(n)
           eos == IF need_to_add_eos THEN 1 ELSE 0
       IN  IF SkipTest(n) = "IndexError"
           THEN /\ t_pc' = "IndexError"
                /\ UNCHANGED <<batch, needs_merge, wc, frag_counts>>
           ELSE IF SkipTest(n) = "skip" \/ sentences = <<>>
           THEN UNCHANGED <<batch, needs_merge, wc, frag_counts, t_pc>>
           ELSE /\ batch' = batch \o sentences \o Repeat(EosToken, eos)
                /\ wc' = wc \o WordCounts(sentences) \o Repeat(1, eos)
                /\ needs_merge' = needs_merge \o RecordFlags(Len(sentences), eos)
                /\ frag_counts' = Append(frag_counts, Len(sentences))
                /\ UNCHANGED t_pc
    /\ UNCHANGED <<tokCfgVars, tokenized, result, cfgVars, seqVars, groupVars, cacheVars, extVars>>

\* line 416: the batch is exhausted and the fragments go to the tokenizer
Tokenize ==
    /\ t_pc = "split"
    /\ tokenized' = TokenizerCall(batch, tok_appends_eos)
    /\ t_pc' = "tokenized"
    /\ UNCHANGED <<tokCfgVars, orig_batch, batch, needs_merge, wc, frag_counts, result,
                   cfgVars, seqVars, groupVars, cacheVars, extVars>>

\* lines 423-427 with a non-empty needs_merge: the call of _merge_split_encodings
Merge ==
    /\ t_pc = "tokenized"
    /\ needs_merge # <<>>
    /\ LET r == _merge_split_encodings(tok_output, batch, tokenized, needs_merge, wc,
                                       EosTokenId, max_sentence_len)
       IN  IF r.raised # ""
           THEN /\ t_pc' = r.raised
                /\ UNCHANGED result
           ELSE /\ result' = r.encoding
                /\ t_pc' = "done"
    /\ UNCHANGED <<tokCfgVars, orig_batch, batch, needs_merge, wc, frag_counts, tokenized,
                   cfgVars, seqVars, groupVars, cacheVars, extVars>>

\* lines 423-427 with an empty needs_merge: the encoding is returned as it is
ReturnUnmerged ==
    /\ t_pc = "tokenized"
    /\ needs_merge = <<>>
    /\ result' = tokenized
    /\ t_pc' = "done"
    /\ UNCHANGED <<tokCfgVars, orig_batch, batch, needs_merge, wc, frag_counts, tokenized,
                   cfgVars, seqVars, groupVars, cacheVars, extVars>>

NextTok ==
    \/ \E d \in RecordsWithin(MaxBatchChars - Used(orig_batch)) : SplitRecord(d)
    \/ Tokenize
    \/ Merge
    \/ ReturnUnmerged

SpecTok == InitTok /\ [][NextTok]_vars


-----------------------------------------------------------------------------
(* Properties of BatchTokenizer *)

\* the synthetic fragments a surviving record ends with
EosFrags == IF need_to_add_eos THEN 1 ELSE 0

\* the number of fragments of the surviving records before the i-th
RECURSIVE FragsBefore(_)
FragsBefore(i) == IF i <= 1 THEN 0 ELSE FragsBefore(i - 1) + frag_counts[i - 1] + EosFrags

\* the positions in batch of the fragments of the i-th surviving record
FragsOf(i) == (FragsBefore(i) + 1)..(FragsBefore(i) + frag_counts[i] + EosFrags)

RECURSIVE SumLens(_, _, _)
SumLens(v, from, to) == IF from > to THEN 0 ELSE Len(v[from]) + SumLens(v, from + 1, to)

\* every record of the batch ends, whitespace apart, in a sentence terminator
AllEndInTerminator ==
    \A i \in 1..Len(orig_batch) :
        /\ SplitWords(orig_batch[i]) # <<>>
        /\ Last(Last(SplitWords(orig_batch[i]))) \in Terminators

\* the tokens of a merged sequence that the tokenizer produced: boundary
\* tokens are word_count + eos_token_id + 1 and lie above every token id
RECURSIVE WithoutBoundaryTokens(_)
WithoutBoundaryTokens(seq) ==
    IF seq = <<>> THEN <<>>
    ELSE (IF Head(seq) > EosTokenId THEN <<>> ELSE <<Head(seq)>>)
         \o WithoutBoundaryTokens(Tail(seq))

\* C6: for N records that all end in a terminator every output field holds
\* N merged sequences in record order; the i-th is as long as the tokens of
\* its fragments (its sentences and the synthetic eos fragment) plus one
\* boundary token for each fragment that gets one.
C6_MergedLengths ==
    (t_pc = "done" /\ AllEndInTerminator) =>
        /\ Len(frag_counts) = Len(orig_batch)
        /\ DOMAIN result = DOMAIN tokenized
        /\ \A f \in DOMAIN result :
              /\ Len(result[f]) = Len(orig_batch)
              /\ \A i \in 1..Len(orig_batch) :
                    LET first == FragsBefore(i) + 1
                        last  == FragsBefore(i) + frag_counts[i] + EosFrags
                        eligible == {j \in first..last :
                                        wc[j] < max_sentence_len /\ tokenized[f][j][1] # EosTokenId}
                    IN  /\ Len(result[f][i]) = SumLens(tokenized[f], first, last) + Cardinality(eligible)
                        /\ f = "input_ids" =>
                              WithoutBoundaryTokens(result[f][i])
                                 = Chain(SubSeq(tokenized[f], first, last))

\* two records, the first of two sentences, each closed by a synthetic eos
C6_Witness ==
    /\ t_pc = "done" /\ AllEndInTerminator
    /\ Len(orig_batch) = 2 /\ frag_counts = <<2, 1>> /\ need_to_add_eos
    /\ max_sentence_len = MAX_SENTENCE_LEN

\* the records of the batch that the loop keeps
Survivors == {i \in 1..Len(orig_batch) : SkipTest(Normalize(orig_batch[i])) = "keep"}

\* C7: at the call of _merge_split_encodings the flags, the word counts and
\* the fragments are equally many, the first flag is False, and each
\* surviving record contributes one False flag followed by True flags only.
C7_FlagsShape ==
    (t_pc = "tokenized" /\ needs_merge # <<>>) =>
        /\ Len(needs_merge) = Len(batch)
        /\ Len(wc) = Len(batch)
        /\ needs_merge[1] = FALSE
        /\ Len(frag_counts) = Cardinality(Survivors)
        /\ Len(batch) = FragsBefore(Len(frag_counts) + 1)
        /\ \A p \in 1..Len(needs_merge) :
              needs_merge[p] = FALSE <=> \E i \in 1..Len(frag_counts) : p = FragsBefore(i) + 1

\* a dropped record between two kept ones, each closed by a synthetic eos
C7_Witness ==
    /\ t_pc = "tokenized" /\ need_to_add_eos
    /\ Len(orig_batch) = 3 /\ Survivors = {1, 3}
    /\ needs_merge = <<FALSE, TRUE, FALSE, TRUE>>

ExampleBatchDone ==
    /\ t_pc = "done" /\ orig_batch = <<Example>>
    /\ enforce_eos /\ ~tok_appends_eos
    /\ max_sentence_len = MAX_SENTENCE_LEN

HelloWorld == SubSeq(Example, 1, 12)
ThisIsATest == SubSeq(Example, 14, 28)

\* C8 as stated: the first sentence is tokenized without a leading space
C8_FirstSentenceUnprefixed ==
    ExampleBatchDone =>
        result["input_ids"] =
            << <<2 + EosTokenId + 1>> \o Tokens(HelloWorld, FALSE)
               \o <<4 + EosTokenId + 1>> \o Tokens(<<" ">> \o ThisIsATest, FALSE)
               \o <<EosTokenId>> >>

\* C8, amended: the example gives one record equal to [2 + eos + 1] +
\* tokens(" Hello world.") + [4 + eos + 1] + tokens(" This is a test.") +
\* [eos]; every sentence of a record, the first one too, is tokenized with
\* one leading space added unless it starts with a space already, and
\* every later sentence starts with exactly one space.
C8_EverySentencePrefixed ==
    /\ ExampleBatchDone =>
          result["input_ids"] =
              << <<2 + EosTokenId + 1>> \o Tokens(<<" ">> \o HelloWorld, FALSE)
                 \o <<4 + EosTokenId + 1>> \o Tokens(<<" ">> \o ThisIsATest, FALSE)
                 \o <<EosTokenId>> >>
    /\ \A i \in 1..Len(frag_counts) :
          \A j \in (FragsBefore(i) + 1)..(FragsBefore(i) + frag_counts[i]) :
              /\ batch[j][1] = " "
              /\ j > FragsBefore(i) + 1 => batch[j][2] \notin Whitespace
              /\ \E r \in Survivors :
                    LET n == Normalize(orig_batch[r])
                    IN  \E a \in 1..Len(n) : \E b \in a..Len(n) :
                           /\ a > 1 => n[a - 1] \in Whitespace
                           /\ batch[j] = IF n[a] = " " THEN SubSeq(n, a, b)
                                         ELSE <<" ">> \o SubSeq(n, a, b)

C8_Witness ==
    /\ ExampleBatchDone
    /\ frag_counts = <<2>> /\ wc = <<2, 4, 1>>


-----------------------------------------------------------------------------
(* The cache build behind TokenizedDocumentCache.build_or_load.          *)
(* build_cache and ShardCache live in levanter.data.shard_cache, which   *)
(* is not among the sources; the writer and the ledger are modelled from *)
(* the documented design of the chunk writer and of the ledger.         *)
(* The rows of a shard stand for its processed batches.                  *)

Shards == {"shard_a", "shard_b"}

EmptyLedger ==
    [per_shard   |-> [s \in Shards |-> [num_chunks_written |-> 0, is_finished |-> FALSE]],
     is_finished |-> FALSE]

\* the rows held by the first n chunk files
RECURSIVE RowsIn(_, _)
RowsIn(files, n) == IF n = 0 THEN 0 ELSE files[n].rows + RowsIn(files, n - 1)

\* a writer task that re-processes every shard from its first row
WriterRestart(led, files, s) == [pc |-> "running", pos |-> 0, buf |-> 0]

\* a writer task of a build: a finished shard is skipped, another one starts
\* at the next chunk the ledger does not advertise, behind the rows of the
\* advertised chunks
WriterFor(led, files, s) ==
    LET pos == RowsIn(files, led.per_shard[s].num_chunks_written)
    IN  IF led.per_shard[s].is_finished
        THEN [pc |-> "done", pos |-> pos, buf |-> 0]
        ELSE [pc |-> "running", pos |-> pos, buf |-> 0]

\* a first build on an empty cache directory: one writer task per shard
InitCache ==
    /\ rows_total \in [Shards -> 0..MaxRows]
    /\ chunk_files = [s \in Shards |-> <<>>]
    /\ ledger = EmptyLedger
    /\ writer = [s \in Shards |-> WriterFor(EmptyLedger, <<>>, s)]
    /\ crashes = 0
    /\ handle = [is_finished |-> FALSE]
    /\ seq_len = 0
    /\ stride = 0
    /\ IdleSeq
    /\ IdleGroup
    /\ IdleTok
    /\ IdleExt

\* the writer pulls a row from its stream and processes it
ProcessRow(s) ==
    /\ writer[s].pc = "running"
    /\ writer[s].pos < rows_total[s]
    /\ writer[s].buf < RowsPerChunk
    /\ writer' = [writer EXCEPT ![s].pos = @ + 1, ![s].buf = @ + 1]
    /\ UNCHANGED <<handle, rows_total, chunk_files, ledger, crashes>>

\* a writer that numbers its chunks from the start whatever the ledger says
NextChunkRestart(s) == 1

\* the index of the chunk a writer writes next: the first one not advertised
NextChunk(s) == ledger.per_shard[s].num_chunks_written + 1

\* the file of chunk index i of a shard set to f
PutFile(files, i, f) ==
    IF i <= Len(files) THEN [files EXCEPT ![i] = f] ELSE Append(files, f)

\* a full chunk, or the partial last one of an exhausted stream, starts
\* to be written: the file exists but is not durable yet
BeginChunkWrite(s) ==
    /\ writer[s].pc = "running"
    /\ \/ writer[s].buf = RowsPerChunk
       \/ writer[s].pos = rows_total[s] /\ writer[s].buf > 0
    /\ chunk_files' = [chunk_files EXCEPT
                          ![s] = PutFile(@, NextChunk(s), [rows |-> writer[s].buf, state |-> "torn"])]
    /\ writer' = [writer EXCEPT ![s].pc = "writing"]
    /\ UNCHANGED <<handle, rows_total, ledger, crashes>>

\* the chunk's data is durable
CompleteChunkWrite(s) ==
    /\ writer[s].pc = "writing"
    /\ chunk_files' = [chunk_files EXCEPT ![s][NextChunk(s)].state = "durable"]
    /\ writer' = [writer EXCEPT ![s].pc = "flushed"]
    /\ UNCHANGED <<handle, rows_total, ledger, crashes>>

\* a writer that updates the ledger while the chunk is still being written
AdvertiseGuardEarly(s) == writer[s].pc \in {"writing", "flushed"}

\* the ledger is updated only after the chunk is durable
AdvertiseGuard(s) == writer[s].pc = "flushed"

\* the atomic ledger commit that advertises the chunk: chunk count += 1
AdvertiseChunk(s) ==
    /\ AdvertiseGuard(s)
    /\ ledger' = [ledger EXCEPT !.per_shard[s].num_chunks_written = @ + 1]
    /\ writer' = [writer EXCEPT ![s].pc = "running", ![s].buf = 0]
    /\ UNCHANGED <<handle, rows_total, chunk_files, crashes>>

\* a global flag set as soon as one shard is finished
GlobalFinishedAny(per_shard) == \E s \in Shards : per_shard[s].is_finished

\* the global flag of a ledger with these shard entries
GlobalFinished(per_shard) == \A s \in Shards : per_shard[s].is_finished

\* a writer that marks its shard finished as soon as the stream is
\* exhausted, whatever it still holds in its buffer
FinishShardUnflushed(s) ==
    /\ writer[s].pc = "running"
    /\ writer[s].pos = rows_total[s]
    /\ LET per == [ledger.per_shard EXCEPT ![s].is_finished = TRUE]
       IN  ledger' = [per_shard |-> per, is_finished |-> GlobalFinished(per)]
    /\ writer' = [writer EXCEPT ![s].pc = "done"]
    /\ UNCHANGED <<handle, rows_total, chunk_files, crashes>>

\* the stream is exhausted and nothing is buffered: the ledger commit that
\* marks the shard finished, and the cache when every shard is
FinishShard(s) ==
    /\ writer[s].pc = "running"
    /\ writer[s].pos = rows_total[s]
    /\ writer[s].buf = 0
    /\ LET per == [ledger.per_shard EXCEPT ![s].is_finished = TRUE]
       IN  ledger' = [per_shard |-> per, is_finished |-> GlobalFinished(per)]
    /\ writer' = [writer EXCEPT ![s].pc = "done"]
    /\ UNCHANGED <<handle, rows_total, chunk_files, crashes>>

Active(s) == writer[s].pc \in {"running", "writing", "flushed"}

\* a failure that takes every writer task down with it
FailShardAbortsBuild(s) ==
    /\ Active(s)
    /\ writer' = [t \in Shards |-> IF Active(t) THEN [writer[t] EXCEPT !.pc = "failed"]
                                   ELSE writer[t]]
    /\ UNCHANGED <<handle, rows_total, chunk_files, ledger, crashes>>

\* processing the shard raises: the failure is logged and the shard abandoned
FailShard(s) ==
    /\ Active(s)
    /\ writer' = [writer EXCEPT ![s].pc = "failed"]
    /\ UNCHANGED <<handle, rows_total, chunk_files, ledger, crashes>>

\* the building process dies: every task's memory is lost, the files and
\* the ledger stay as they are
Crash ==
    /\ crashes < MaxCrashes
    /\ \E s \in Shards : Active(s)
    /\ writer' = [s \in Shards |-> IF Active(s) THEN [writer[s] EXCEPT !.pc = "stopped"]
                                   ELSE writer[s]]
    /\ crashes' = crashes + 1
    /\ handle' = <<>>
    /\ UNCHANGED <<rows_total, chunk_files, ledger>>

\* build is invoked again on the directory while no writer is at work:
\* finished shards are skipped, the others resume from the next chunk the
\* ledger does not advertise; the handle is returned at once
Resume ==
    /\ \A s \in Shards : ~Active(s)
    /\ writer' = [s \in Shards |-> WriterFor(ledger, chunk_files[s], s)]
    /\ handle' = [is_finished |-> ledger.is_finished]
    /\ UNCHANGED <<rows_total, chunk_files, ledger, crashes>>

\* LMDatasetConfig.build_or_load_cache, lines 749-752: the directory holds a
\* ledger, so the cache is loaded and no build is started
Load ==
    /\ \A s \in Shards : ~Active(s)
    /\ handle' = [is_finished |-> ledger.is_finished]
    /\ UNCHANGED <<rows_total, chunk_files, ledger, writer, crashes>>

\* the steps of a writer task that is neither failing nor killed
WriterStep(s) ==
    \/ ProcessRow(s)
    \/ BeginChunkWrite(s)
    \/ CompleteChunkWrite(s)
    \/ AdvertiseChunk(s)
    \/ FinishShard(s)

NextCache ==
    /\ \/ \E s \in Shards : ProcessRow(s)
       \/ \E s \in Shards : BeginChunkWrite(s)
       \/ \E s \in Shards : CompleteChunkWrite(s)
       \/ \E s \in Shards : AdvertiseChunk(s)
       \/ \E s \in Shards : FinishShard(s)
       \/ \E s \in Shards : FailShard(s)
       \/ Crash
       \/ Resume
       \/ Load
    /\ UNCHANGED <<cfgVars, seqVars, groupVars, tokVars, extVars>>

SpecCache == InitCache /\ [][NextCache]_vars

\* a writer task, once started, runs on as long as it has something to do
FairSpecCache ==
    SpecCache /\ \A s \in Shards : WF_vars(WriterStep(s) /\ UNCHANGED <<cfgVars, seqVars, groupVars, tokVars, extVars>>)

-----------------------------------------------------------------------------
(* Properties of the cache build *)

DurableChunks(s) == {i \in 1..Len(chunk_files[s]) : chunk_files[s][i].state = "durable"}

\* C9: the chunk count the ledger advertises for a shard never exceeds the
\* shard's durable chunk files: every advertised chunk is on disk, whole.
C9_LedgerWithinDisk ==
    ledger # <<>> =>
        \A s \in Shards :
            /\ ledger.per_shard[s].num_chunks_written <= Cardinality(DurableChunks(s))
            /\ \A i \in 1..ledger.per_shard[s].num_chunks_written : i \in DurableChunks(s)

\* after a crash between the chunk write and the ledger update, the resumed
\* writer is rewriting the chunk the ledger does not advertise yet
C9_Witness ==
    /\ crashes = 1
    /\ \E s \in Shards :
          /\ ledger.per_shard[s].num_chunks_written = 1
          /\ Len(chunk_files[s]) = 2
          /\ chunk_files[s][2].state = "torn"
          /\ writer[s].pc = "writing"

\* C10: the ledger's global is_finished is true exactly when every known
\* shard is marked finished.
C10_GlobalIffAllShards ==
    ledger # <<>> =>
        (ledger.is_finished <=> \A s \in Shards : ledger.per_shard[s].is_finished)

\* one shard is finished and the other is not; then both are
C10_Witness ==
    /\ ledger # <<>> /\ ledger.is_finished
    /\ \A s \in Shards : ledger.per_shard[s].is_finished /\ rows_total[s] > 0
    /\ crashes = 1


IsFinished(s) == ledger.per_shard[s].is_finished

AdvertisedRows(s) == RowsIn(chunk_files[s], ledger.per_shard[s].num_chunks_written)

\* every advertised chunk of the shard is full, except that the last one
\* may hold fewer rows, and none is empty
OnlyLastChunkPartial(s) ==
    LET n == ledger.per_shard[s].num_chunks_written
    IN  \A i \in 1..n :
           /\ chunk_files[s][i].state = "durable"
           /\ chunk_files[s][i].rows \in 1..RowsPerChunk
           /\ i < n => chunk_files[s][i].rows = RowsPerChunk

\* C11: a shard is marked finished only after its stream is exhausted and
\* every row of it, those of a final partial chunk included, is flushed and
\* advertised: the partial chunk is flushed first, the shard marked then.
C11_FinishedAfterFlush ==
    /\ [](ledger # <<>> =>
            \A s \in Shards :
                IsFinished(s) => AdvertisedRows(s) = rows_total[s] /\ OnlyLastChunkPartial(s))
    /\ [][ledger # <<>> =>
            \A s \in Shards :
                (~IsFinished(s) /\ ledger'.per_shard[s].is_finished) =>
                    /\ writer[s].pos = rows_total[s]
                    /\ writer[s].buf = 0
                    /\ AdvertisedRows(s) = rows_total[s]
                    /\ ledger'.per_shard[s].num_chunks_written
                          = ledger.per_shard[s].num_chunks_written]_vars

\* a finished shard of three rows: a full chunk and a final partial one
C11_Witness ==
    \E s \in Shards :
        /\ IsFinished(s)
        /\ rows_total[s] = 3
        /\ Len(chunk_files[s]) = 2
        /\ chunk_files[s][1].rows = 2
        /\ chunk_files[s][2].rows = 1

\* C12: once the cache is built to completion, invoking build again writes
\* no chunk and no ledger entry, re-processes no shard, and returns a handle
\* whose is_finished is true.
C12_RebuildIsNoOp ==
    [][(ledger # <<>> /\ ledger.is_finished) =>
          /\ chunk_files' = chunk_files
          /\ ledger' = ledger
          /\ \A s \in Shards : writer[s].pc = "done" /\ writer'[s] = writer[s]
          /\ handle' # handle => handle' = [is_finished |-> TRUE]]_vars

\* build was invoked on the completed cache and returned
C12_Witness ==
    /\ ledger # <<>> /\ ledger.is_finished
    /\ handle = [is_finished |-> TRUE]
    /\ \A s \in Shards : rows_total[s] > RowsPerChunk

Failed(s) == writer[s].pc = "failed"

\* C14: a failing shard is never marked finished and the cache is not marked
\* finished while it is abandoned; the failure touches neither the ledger,
\* nor a chunk, nor another shard's writer, and the other shards' writers
\* run on until their shards are finished.
C14_FailureIsIsolated ==
    /\ [](ledger # <<>> =>
            \A s \in Shards : Failed(s) => ~IsFinished(s) /\ ~ledger.is_finished)
    /\ [][ledger # <<>> =>
            \A s \in Shards :
                (~Failed(s) /\ writer'[s].pc = "failed") =>
                    /\ ledger' = ledger
                    /\ chunk_files' = chunk_files
                    /\ \A t \in Shards \ {s} : writer'[t] = writer[t]]_vars
    /\ \A s \in Shards : \A t \in Shards \ {s} :
          (ledger # <<>> /\ Failed(s) /\ Active(t))
             ~> (IsFinished(t) \/ Failed(t) \/ writer[t].pc = "stopped")

\* one shard failed, and the other was built to the end with two chunks
C14_Witness ==
    \E s \in Shards : \E t \in Shards \ {s} :
        /\ Failed(s)
        /\ ~IsFinished(s)
        /\ IsFinished(t)
        /\ ledger.per_shard[t].num_chunks_written = 2
        /\ ~ledger.is_finished


-----------------------------------------------------------------------------
(* A reader iterating the cache while it is built:                        *)
(* TokenizedDocumentCache.__iter__ over ShardCache.iter_batches_from_chunks, *)
(* modelled from the documented read path, a step per chunk.              *)

ShardOrder == <<"shard_a", "shard_b">>

\* the shard the reader is at, when it is at one
ReaderShard == ShardOrder[reader.shard]

InShard == reader.pc = "iterating" /\ reader.shard <= Len(ShardOrder)

\* every advertised chunk of the reader's shard is consumed
AtFrontier == InShard /\ reader.chunk = ledger.per_shard[ReaderShard].num_chunks_written

\* __iter__ is called on the handle build returned
Attach ==
    /\ reader.pc = "detached"
    /\ reader' = [reader EXCEPT !.pc = "iterating"]
    /\ UNCHANGED delivered

\* the next chunk is advertised: it is read and handed out; a chunk that
\* is not whole on disk is a corrupt cache
ReadChunk ==
    /\ InShard
    /\ ~AtFrontier
    /\ LET i == reader.chunk + 1
       IN  IF i <= Len(chunk_files[ReaderShard]) /\ chunk_files[ReaderShard][i].state = "durable"
           THEN /\ delivered' = Append(delivered, <<ReaderShard, i>>)
                /\ reader' = [reader EXCEPT !.chunk = i]
           ELSE /\ reader' = [reader EXCEPT !.pc = "CacheCorruptionError"]
                /\ UNCHANGED delivered

\* a reader leaves a shard at the frontier however the shard stands
LeaveGuardEarly == AtFrontier

\* a reader leaves a shard at the frontier once the shard is finished
LeaveGuard == AtFrontier /\ ledger.per_shard[ReaderShard].is_finished

\* the shard is finished and consumed: on to the next one
NextShard ==
    /\ LeaveGuard
    /\ reader' = [reader EXCEPT !.shard = @ + 1, !.chunk = 0]
    /\ UNCHANGED delivered

\* no shard is left: the iteration ends
EndIteration ==
    /\ reader.pc = "iterating"
    /\ reader.shard > Len(ShardOrder)
    /\ reader' = [reader EXCEPT !.pc = "ended"]
    /\ UNCHANGED delivered

ReaderStep ==
    /\ \/ Attach
       \/ ReadChunk
       \/ NextShard
       \/ EndIteration
    /\ UNCHANGED <<cfgVars, seqVars, groupVars, tokVars, cacheVars, lmVars, viewVars, srcVars, propVars, wrapVars>>

NextRead == NextCache \/ ReaderStep

SpecRead == InitCache /\ [][NextRead]_vars

\* the reader is a loop that takes its next step whenever it can
FairSpecRead == SpecRead /\ WF_vars(ReaderStep)

\* the chunks i..n of a shard, in chunk order
RECURSIVE ChunksOf(_, _, _)
ChunksOf(s, i, n) == IF i > n THEN <<>> ELSE <<<<s, i>>>> \o ChunksOf(s, i + 1, n)

\* the advertised chunks of the shards k.., in shard order then chunk order
RECURSIVE AdvertisedFrom(_)
AdvertisedFrom(k) ==
    IF k > Len(ShardOrder) THEN <<>>
    ELSE ChunksOf(ShardOrder[k], 1, ledger.per_shard[ShardOrder[k]].num_chunks_written)
         \o AdvertisedFrom(k + 1)

\* what a reader at its position must have been given
RECURSIVE ConsumedUpTo(_)
ConsumedUpTo(k) ==
    IF k = 0 THEN <<>>
    ELSE ConsumedUpTo(k - 1)
         \o (IF k < reader.shard
             THEN ChunksOf(ShardOrder[k], 1, ledger.per_shard[ShardOrder[k]].num_chunks_written)
             ELSE ChunksOf(ShardOrder[k], 1, reader.chunk))

\* C13: a reader of a cache that is not globally finished neither ends nor
\* raises at the frontier: it stays where it is until the ledger advances;
\* it ends only when the cache is globally finished and every chunk was
\* delivered, each once, in shard order then chunk order; and it does end
\* once the cache is finished.
C13_ReaderWaitsAtFrontier ==
    /\ [](reader.pc \in {"detached", "iterating", "ended"})
    /\ [](reader.pc # "detached" =>
            delivered = ConsumedUpTo(IF reader.shard > Len(ShardOrder)
                                     THEN Len(ShardOrder) ELSE reader.shard))
    /\ [](reader.pc = "ended" => ledger.is_finished /\ delivered = AdvertisedFrom(1))
    /\ [][(AtFrontier /\ ~ledger.per_shard[ReaderShard].is_finished)
             => (reader' = reader /\ delivered' = delivered)]_vars
    /\ (reader.pc = "iterating" /\ ledger.is_finished) ~> (reader.pc = "ended")

\* the reader waits at the frontier of the second shard, having consumed
\* the finished first one, while the second shard's next chunk is written
C13_Witness ==
    /\ reader.pc = "iterating"
    /\ reader.shard = 2
    /\ AtFrontier
    /\ delivered = <<<<"shard_a", 1>>, <<"shard_a", 2>>, <<"shard_b", 1>>>>
    /\ writer["shard_b"].pc = "writing"
    /\ ~ledger.is_finished


-----------------------------------------------------------------------------
(* Further properties of BatchTokenizer *)

\* the last non-whitespace character of the record is a sentence terminator
EndsInTerminator(d) ==
    /\ SplitWords(d) # <<>>
    /\ Last(Last(SplitWords(d))) \in Terminators

\* the fragments of a batch none of whose records is dropped
RECURSIVE FragmentsOf(_, _)
FragmentsOf(records, eos) ==
    IF records = <<>> THEN <<>>
    ELSE Sentences(Normalize(Head(records))) \o Repeat(EosToken, eos)
         \o FragmentsOf(Tail(records), eos)

\* C15: __call__ raises no error on any batch of strings; a record that
\* does not end in a terminator, an empty or blank one included, is
\* dropped, and the fragments that go to the tokenizer are those of the
\* batch without the dropped records.
C15_DropsWithoutError ==
    /\ t_pc # "IndexError"
    /\ t_pc \in {"tokenized", "done"} =>
          LET terminated == SelectSeq(orig_batch, EndsInTerminator)
          IN  /\ Len(frag_counts) = Len(terminated)
              /\ batch = FragmentsOf(terminated, EosFrags)


-----------------------------------------------------------------------------
(* CausalLmDataset.  A random key is the path of splits that led to it   *)
(* from a root key, so two keys are equal only if they were derived the  *)
(* same way; fcm_prob is counted in tenths.                              *)

FcmProbs == {0, 1, 5, 10}
RootKeys == {<<"k1">>, <<"k2">>, <<"k3">>}

\* jax.random.split(key): two new keys
Split(k) == <<k \o <<0>>, k \o <<1>>>>

\* a constructor that accepts every combination
KeyMissingIgnored(p, k) == FALSE

\* line 88: the condition of the ValueError
KeyMissing(p, k) == p > 0 /\ k = <<>>

\* CausalLmDataset(dataset, QPos, KPos, fcm_prob, key): the arguments
InitLm ==
    /\ fcm_prob \in FcmProbs
    /\ key \in {<<>>} \cup {<<k>> : k \in RootKeys}
    /\ iter_key = <<>>
    /\ examples = <<>>
    /\ lm_pc = "new"
    /\ seq_len = 0
    /\ stride = 0
    /\ IdleSeq
    /\ IdleGroup
    /\ IdleTok
    /\ IdleCache
    /\ IdleRead
    /\ IdleView
    /\ IdleSrc
    /\ IdleProp
    /\ IdleWrap

\* lines 81-89: __init__ stores its arguments and checks them
Construct ==
    /\ lm_pc = "new"
    /\ lm_pc' = IF KeyMissing(fcm_prob, key) THEN "ValueError" ELSE "ready"
    /\ UNCHANGED <<fcm_prob, key, iter_key, examples>>

\* lines 91-94: shard() wraps the sharded dataset in a new CausalLmDataset
\* with the same arguments, checked again by __init__
ShardLm ==
    /\ lm_pc = "ready"
    /\ lm_pc' = IF KeyMissing(fcm_prob, key) THEN "ValueError" ELSE "sharded"
    /\ UNCHANGED <<fcm_prob, key, iter_key, examples>>

\* line 97: key = self.key
IterStart ==
    /\ lm_pc \in {"ready", "sharded"}
    /\ iter_key' = key
    /\ examples' = <<>>
    /\ lm_pc' = "iterating"
    /\ UNCHANGED <<fcm_prob, key>>

\* lines 102-119, _create_lm_example(tokens, key): the subkey the example is
\* masked with, <<>> when there is no masking.  The function splits its
\* parameter key and rebinds its parameter only.
CreateLmExample(tokens, k) ==
    IF fcm_prob > 0
    THEN [tokens |-> tokens, this_key |-> <<Split(k[1])[1]>>]
    ELSE [tokens |-> tokens, this_key |-> <<>>]

\* lines 121-123: one turn of the loop over the wrapped dataset; the local
\* key of __iter__ is passed on and never assigned
NextExample ==
    /\ lm_pc = "iterating"
    /\ Len(examples) < MaxExamples
    /\ IF fcm_prob > 0 /\ iter_key = <<>>
       THEN /\ lm_pc' = "AssertionError"
            /\ UNCHANGED examples
       ELSE /\ examples' = Append(examples, CreateLmExample(Len(examples) + 1, iter_key))
            /\ UNCHANGED lm_pc
    /\ UNCHANGED <<fcm_prob, key, iter_key>>

\* the wrapped dataset is exhausted
IterDone ==
    /\ lm_pc = "iterating"
    /\ lm_pc' = "done"
    /\ UNCHANGED <<fcm_prob, key, iter_key, examples>>

NextLm ==
    /\ \/ Construct
       \/ ShardLm
       \/ IterStart
       \/ NextExample
       \/ IterDone
    /\ UNCHANGED <<cfgVars, seqVars, groupVars, tokVars, cacheVars, readVars, viewVars, srcVars, propVars, wrapVars>>

SpecLm == InitLm /\ [][NextLm]_vars

\* C16: the constructor raises ValueError exactly when the masking
\* probability is not zero and no key is given, and it does so before the
\* wrapped dataset is sharded or iterated.
C16_KeyRequired ==
    /\ lm_pc # "new" => (lm_pc = "ValueError" <=> (fcm_prob # 0 /\ key = <<>>))
    /\ lm_pc = "ValueError" => examples = <<>> /\ iter_key = <<>>
    /\ lm_pc \in {"new", "ValueError", "ready", "sharded", "iterating", "done"}

\* a probability of one tenth and no key: rejected
C16_Witness == lm_pc = "ValueError" /\ fcm_prob = 1 /\ key = <<>>

\* C17: with fcm_prob > 0 no two examples of an iteration are masked with
\* the same subkey.
C17_FreshSubkeyPerExample ==
    fcm_prob > 0 =>
        \A i \in 1..Len(examples) : \A j \in 1..Len(examples) :
            i # j => examples[i].this_key # examples[j].this_key


-----------------------------------------------------------------------------
(* TokenizedDocumentCache.shard *)

\* the receiver: a view of the chunk cache
Self == [chunk_cache |-> "chunk_cache", flatten_docs |-> flatten_docs]

\* self.chunk_cache.shard(shard_index, num_shards), a call into ShardCache
ChunkCacheShard(cache, i, n) == [shard_of |-> cache, index |-> i, count |-> n]

\* a range test that lets the index num_shards through
OutOfRangeOffByOne(i, n) == n < i

\* line 287
OutOfRange(i, n) == n <= i

\* lines 286-293; calls counts the calls of chunk_cache.shard
shard(self, i, n) ==
    IF OutOfRange(i, n)
    THEN [raised |-> "ValueError", returned |-> <<>>, calls |-> 0]
    ELSE IF n = 1
         THEN [raised |-> "", returned |-> <<self>>, calls |-> 0]
         ELSE [raised |-> "",
               returned |-> <<[chunk_cache |-> ChunkCacheShard(self.chunk_cache, i, n),
                               flatten_docs |-> self.flatten_docs]>>,
               calls |-> 1]

InitView ==
    /\ flatten_docs \in BOOLEAN
    /\ shard_index \in (-1)..(MaxShards + 1)
    /\ num_shards \in 0..MaxShards
    /\ shard_ret = <<>>
    /\ seq_len = 0
    /\ stride = 0
    /\ IdleSeq
    /\ IdleGroup
    /\ IdleTok
    /\ IdleCache
    /\ IdleRead
    /\ IdleLm
    /\ IdleSrc
    /\ IdleProp
    /\ IdleWrap

CallShard ==
    /\ shard_ret = <<>>
    /\ shard_ret' = <<shard(Self, shard_index, num_shards)>>
    /\ UNCHANGED <<flatten_docs, shard_index, num_shards>>
    /\ UNCHANGED <<cfgVars, seqVars, groupVars, tokVars, cacheVars, readVars, lmVars, srcVars, propVars, wrapVars>>

NextView == CallShard

SpecView == InitView /\ [][NextView]_vars

\* C18: shard raises ValueError whenever shard_index >= num_shards, without
\* a call of the chunk cache's shard; otherwise it returns the cache itself
\* when num_shards is 1, and else a view with the same flatten_docs over
\* chunk_cache.shard(shard_index, num_shards).
C18_ShardRange ==
    shard_ret # <<>> =>
        LET r == shard_ret[1]
        IN  /\ shard_index >= num_shards =>
                  r.raised = "ValueError" /\ r.returned = <<>> /\ r.calls = 0
            /\ shard_index < num_shards =>
                  /\ r.raised = ""
                  /\ num_shards = 1 => r.returned = <<Self>> /\ r.calls = 0
                  /\ num_shards # 1 =>
                        /\ r.calls = 1
                        /\ r.returned[1].flatten_docs = flatten_docs
                        /\ r.returned[1].chunk_cache =
                              [shard_of |-> "chunk_cache", index |-> shard_index,
                               count |-> num_shards]

\* the index equal to the count is out of range
C18_Witness ==
    /\ shard_ret # <<>>
    /\ shard_index = 2 /\ num_shards = 2
    /\ shard_ret[1].raised = "ValueError"

-----------------------------------------------------------------------------
(* LMDatasetSourceConfig and LMDatasetConfig: which source, which cache *)

Splits == {"train", "validation", "test"}

\* what WrappedHFDataset(id, split=...) does: it returns, or raises a
\* ValueError whose message starts with "Bad split", another ValueError,
\* or an error of another type
HfOutcomes == {"ok", "Bad split", "ValueError", "ConnectionError"}

SourceConfigs ==
    [has_id : BOOLEAN, hf : HfOutcomes, shard_names : 0..1,
     train_urls : 0..1, validation_urls : 0..1]

\* lines 643-659; the urls are counted
urls_for_split(cfg, split) ==
    IF split = "train" THEN [raised |-> "", urls |-> cfg.train_urls]
    ELSE IF split = "validation" THEN [raised |-> "", urls |-> cfg.validation_urls]
    ELSE [raised |-> "ValueError", urls |-> 0]

\* a get_shard_source that re-raises every ValueError
get_shard_source_reraising(cfg, split) ==
    IF cfg.has_id
    THEN IF cfg.hf # "ok" THEN [raised |-> cfg.hf, source |-> <<>>]
         ELSE IF cfg.shard_names = 0 THEN [raised |-> "", source |-> <<>>]
         ELSE [raised |-> "", source |-> <<"WrappedHFDataset">>]
    ELSE LET u == urls_for_split(cfg, split)
         IN  IF u.raised # "" THEN [raised |-> u.raised, source |-> <<>>]
             ELSE IF u.urls = 0 THEN [raised |-> "", source |-> <<>>]
             ELSE [raised |-> "", source |-> <<"TextUrlDataset">>]

\* lines 610-630; source is <<>> for None
get_shard_source(cfg, split) ==
    IF cfg.has_id
    THEN IF cfg.hf = "Bad split" THEN [raised |-> "", source |-> <<>>]
         ELSE IF cfg.hf # "ok" THEN [raised |-> cfg.hf, source |-> <<>>]
         ELSE IF cfg.shard_names = 0 THEN [raised |-> "", source |-> <<>>]
         ELSE [raised |-> "", source |-> <<"WrappedHFDataset">>]
    ELSE LET u == urls_for_split(cfg, split)
         IN  IF u.raised # "" THEN [raised |-> u.raised, source |-> <<>>]
             ELSE IF u.urls = 0 THEN [raised |-> "", source |-> <<>>]
             ELSE [raised |-> "", source |-> <<"TextUrlDataset">>]

\* lines 743-779: the cache of the split's directory is loaded when its
\* ledger is there; only else is the source looked up and a build started
build_or_load_cache(cfg, on_disk, split) ==
    IF on_disk
    THEN [split |-> split, raised |-> "", cache |-> <<"loaded">>,
          loaded |-> TRUE, build_started |-> FALSE]
    ELSE LET source == get_shard_source(cfg, split)
         IN  IF source.raised # ""
             THEN [split |-> split, raised |-> source.raised, cache |-> <<>>,
                   loaded |-> FALSE, build_started |-> FALSE]
             ELSE IF source.source = <<>>
             THEN [split |-> split, raised |-> "", cache |-> <<>>,
                   loaded |-> FALSE, build_started |-> FALSE]
             ELSE [split |-> split, raised |-> "", cache |-> <<"built">>,
                   loaded |-> FALSE, build_started |-> TRUE]

\* lines 711-718, through validation_set and token_seq_dataset (735-741):
\* the names of the returned mapping
validation_sets(cfg, on_disk) ==
    LET c == build_or_load_cache(cfg, on_disk, "validation")
    IN  [raised |-> c.raised, loaded |-> c.loaded, build_started |-> c.build_started,
         sets |-> IF c.raised = "" /\ c.cache # <<>> THEN {""} ELSE {}]

InitSrc ==
    /\ source_cfg \in SourceConfigs
    /\ ledger_on_disk \in BOOLEAN
    /\ cache_ret = <<>>
    /\ validation_ret = <<>>
    /\ seq_len = 0
    /\ stride = 0
    /\ IdleSeq
    /\ IdleGroup
    /\ IdleTok
    /\ IdleCache
    /\ IdleRead
    /\ IdleLm
    /\ IdleView
    /\ IdleProp
    /\ IdleWrap

CallBuildOrLoadCache(split) ==
    /\ cache_ret = <<>>
    /\ validation_ret = <<>>
    /\ cache_ret' = <<build_or_load_cache(source_cfg, ledger_on_disk, split)>>
    /\ UNCHANGED <<source_cfg, ledger_on_disk, validation_ret>>

CallValidationSets ==
    /\ cache_ret = <<>>
    /\ validation_ret = <<>>
    /\ validation_ret' = <<validation_sets(source_cfg, ledger_on_disk)>>
    /\ UNCHANGED <<source_cfg, ledger_on_disk, cache_ret>>

NextSrc ==
    /\ \/ \E split \in Splits : CallBuildOrLoadCache(split)
       \/ CallValidationSets
    /\ UNCHANGED <<cfgVars, seqVars, groupVars, tokVars, cacheVars, readVars, lmVars, viewVars, propVars, wrapVars>>

SpecSrc == InitSrc /\ [][NextSrc]_vars

\* the split has no data: the remote dataset lacks it or has no shards, or
\* the url list of the split is empty
NoData(cfg, split) ==
    \/ cfg.has_id /\ cfg.hf = "Bad split"
    \/ cfg.has_id /\ cfg.hf = "ok" /\ cfg.shard_names = 0
    \/ ~cfg.has_id /\ split = "train" /\ cfg.train_urls = 0
    \/ ~cfg.has_id /\ split = "validation" /\ cfg.validation_urls = 0

\* another error comes up while the source is looked up
OtherError(cfg, split) ==
    \/ cfg.has_id /\ cfg.hf \in {"ValueError", "ConnectionError"}
    \/ ~cfg.has_id /\ split \notin {"train", "validation"}

\* get_shard_source returns None exactly when the split has no data and
\* raises exactly the other errors
SourceContract ==
    \A cfg \in SourceConfigs : \A split \in Splits :
        LET r == get_shard_source(cfg, split)
        IN  /\ (r.raised = "" /\ r.source = <<>>) <=> NoData(cfg, split)
            /\ r.raised # "" <=> OtherError(cfg, split)

-----------------------------------------------------------------------------
(* Further properties of concatenate_and_group_texts *)

\* C20: with drop_remainder=True only full windows are emitted: every field
\* of every emitted slice has exactly seq_len tokens, whatever the total
\* length and the stride.
C20_DropRemainderFullWindows ==
    drop_remainder =>
        \A i \in 1..Len(slices) :
            \A k \in DOMAIN slices[i].data : Len(slices[i].data[k]) = seq_len

-----------------------------------------------------------------------------
(* Further properties of BatchTokenizer *)

\* the call of _merge_split_encodings has been made and is over
MergeCalled == needs_merge # <<>> /\ t_pc \notin {"split", "tokenized", "IndexError"}

\* C21: when the tokenizer returns, for a non-empty field, values per
\* fragment that are neither lists nor arrays, the call fails with the
\* ValueError of _merge_split_encodings and returns no encoding, neither a
\* partial nor an unmerged one.
C21_UnknownTypeFails ==
    (tok_output \notin {"list", "ndarray"} /\ MergeCalled) =>
        /\ t_pc = "ValueError: Unknown type"
        /\ result = <<>>

\* two records were split and tokenized into tuples, and the merge raised
C21_Witness ==
    /\ tok_output = "tuple"
    /\ Len(frag_counts) = 2
    /\ \A f \in DOMAIN tokenized : Len(tokenized[f]) > 0
    /\ t_pc = "ValueError: Unknown type"

\* fragment j of batch is the synthetic eos fragment of its record
IsEosFragment(j) ==
    need_to_add_eos /\ \E i \in 1..Len(frag_counts) : j = FragsBefore(i + 1)

\* fragment j with its boundary token in front when eligible holds
PieceOf(f, j, eligible) ==
    IF eligible THEN <<wc[j] + EosTokenId + 1>> \o tokenized[f][j] ELSE tokenized[f][j]

ProbeSaysAdd == enforce_eos /\ ~tok_appends_eos

\* the position in batch of the last fragment of the i-th surviving record
\* when each record has e fragments after its sentences
RECURSIVE LastOf(_, _)
LastOf(i, e) == IF i = 0 THEN 0 ELSE LastOf(i - 1, e) + frag_counts[i] + e

C24_EosFragments ==
    /\ ProbeSaysAdd =>
          /\ Len(batch) = LastOf(Len(frag_counts), 1)
          /\ \A i \in 1..Len(frag_counts) :
                /\ batch[LastOf(i, 1)] = EosToken
                /\ wc[LastOf(i, 1)] = 1
                /\ needs_merge[LastOf(i, 1)] = TRUE
                /\ \A j \in (LastOf(i - 1, 1) + 1)..(LastOf(i, 1) - 1) : batch[j] # EosToken
    /\ ~ProbeSaysAdd =>
          /\ Len(batch) = LastOf(Len(frag_counts), 0)
          /\ \A j \in 1..Len(batch) : batch[j] # EosToken

\* C24: the probe runs once, at construction, and its outcome never
\* changes; when enforce_eos is true and the tokenizer does not end its
\* output with eos, every surviving record's fragments end with exactly
\* one synthetic eos fragment of word count 1 and merge flag True;
\* otherwise no synthetic eos fragment is ever added.
C24_EosProbe ==
    /\ [](need_to_add_eos = ProbeSaysAdd /\ C24_EosFragments)
    /\ [][need_to_add_eos' = need_to_add_eos]_vars

\* two surviving records, each closed by its eos fragment
C24_Witness ==
    /\ ProbeSaysAdd /\ t_pc = "done"
    /\ Len(frag_counts) = 2 /\ frag_counts[1] = 2
    /\ batch[3] = EosToken /\ batch[Len(batch)] = EosToken

\* C25: for the same fragments, flags and word counts the array branch
\* returns, without error, one merged sequence per record with the
\* elements the list branch returns.
C25_ArrayBranchAsListBranch ==
    (tok_output = "ndarray" /\ MergeCalled) =>
        /\ t_pc = "done"
        /\ result = _merge_split_encodings("list", batch, tokenized, needs_merge, wc,
                                            EosTokenId, max_sentence_len).encoding

\* C26: every boundary token lies in eos_token_id + 2 .. eos_token_id +
\* max_sentence_len, because every fragment that gets one has between 1
\* and max_sentence_len - 1 words; it is never eos_token_id nor the
\* reserved eos_token_id + 1.
C26_BoundaryTokenRange ==
    (t_pc \in {"tokenized", "done"} /\ needs_merge # <<>>) =>
        /\ \A f \in DOMAIN tokenized : \A j \in 1..Len(batch) :
              Prefixed(wc[j], tokenized[f][j], EosTokenId, max_sentence_len) =>
                  /\ wc[j] >= 1
                  /\ wc[j] + EosTokenId + 1
                        \in (EosTokenId + 2)..(EosTokenId + max_sentence_len)
        /\ t_pc = "done" =>
              \A f \in DOMAIN result : \A i \in 1..Len(result[f]) :
                  \A x \in 1..Len(result[f][i]) :
                      result[f][i][x] > EosTokenId =>
                          result[f][i][x] \in (EosTokenId + 2)..(EosTokenId + max_sentence_len)

\* a merged record with the largest boundary token of a small max_sentence_len
C26_Witness ==
    /\ t_pc = "done" /\ needs_merge # <<>>
    /\ max_sentence_len = 2
    /\ \E i \in 1..Len(result["input_ids"]) :
          result["input_ids"][i][1] = EosTokenId + max_sentence_len

-----------------------------------------------------------------------------
(* Further properties of the cache build *)

\* C27: across every step of a build (a chunk flush, a crash, a resumed
\* build) a shard's num_chunks_written never decreases and grows by one
\* at most, so chunks are advertised in index order with no gap, and the
\* file of a chunk that is advertised is never written again.
C27_LedgerMonotone ==
    [][\A s \in Shards :
          LET n == ledger.per_shard[s].num_chunks_written
          IN  /\ ledger'.per_shard[s].num_chunks_written \in {n, n + 1}
              /\ Len(chunk_files'[s]) >= n
              /\ \A i \in 1..n : chunk_files'[s][i] = chunk_files[s][i]]_vars

\* after a crash a resumed writer has advertised the second chunk of a shard
C27_Witness ==
    /\ crashes = 1
    /\ \E s \in Shards :
          /\ ledger.per_shard[s].num_chunks_written = 2
          /\ ledger.per_shard[s].is_finished
          /\ \A i \in 1..2 : chunk_files[s][i].state = "durable"

-----------------------------------------------------------------------------
(* Further properties of concatenate_and_group_texts and its callers *)

\* the data of the slices yielded so far
SliceData == [i \in 1..Len(slices) |-> slices[i].data]

\* the slices among sl whose input_ids have slen tokens
RECURSIVE FullWindows(_, _)
FullWindows(sl, slen) ==
    IF sl = <<>> THEN <<>>
    ELSE (IF Len(Head(sl)["input_ids"]) = slen THEN <<Head(sl)>> ELSE <<>>)
         \o FullWindows(Tail(sl), slen)

\* C28: with drop_remainder=False the generator yields at most one slice
\* shorter than seq_len, as its last one, of 1 to seq_len - 1 tokens, so
\* the inner loop of TokenSeqDataset.__iter__ never finds extra_tokens set
\* when it meets a short slice: its assertion does not fail.
C28_OneShortSliceLast ==
    ~drop_remainder =>
        /\ \A i \in 1..Len(slices) :
              LET n == Len(slices[i].data["input_ids"])
              IN  /\ n \in 1..seq_len
                  /\ n < seq_len => (i = Len(slices) /\ (g_pc = "loop" => ENABLED GroupEnd))
        /\ LET st == IterSlices([extra |-> <<>>, out |-> <<>>, failed |-> FALSE],
                                SliceData, 1, seq_len)
           IN  /\ ~st.failed
               /\ st.extra # <<>> => Len(st.extra[1]["input_ids"].v) \in 1..(seq_len - 1)

\* a call that yielded two full windows and then a short one
C28_Witness ==
    /\ ~drop_remainder /\ g_pc = "done" /\ stride \in 1..seq_len
    /\ Len(slices) = 3
    /\ Len(slices[2].data["input_ids"]) = seq_len
    /\ Len(slices[3].data["input_ids"]) < seq_len

\* C29: drop_remainder=True removes the trailing short slice only: the
\* full windows yielded are those yielded with drop_remainder=False, in
\* the same order.
C29_DropKeepsFullWindows ==
    (drop_remainder /\ g_pc = "done" /\ stride \in 1..seq_len) =>
        FullWindows(SliceData, seq_len)
            = FullWindows(concatenate_and_group_texts(encoding, seq_len, stride, FALSE,
                                                      mask_stride_overlap), seq_len)

-----------------------------------------------------------------------------
(* shard() of the dataset wrappers.  An object is the record of its      *)
(* fields; its class shows in the names of the fields.                   *)

\* lines 175-177: BatchEncodingDataset(cache, return_batches=False)
BatchEncodingDataset(cache, return_batches) ==
    [cache |-> cache, return_batches |-> return_batches]

\* lines 134-137
TokenSeqDataset(doc_cache, slen, strd) ==
    [doc_cache |-> doc_cache, seq_len |-> slen, stride |-> strd]

\* lines 72-89: the object, or the ValueError of line 89
CausalLmDataset(dataset, QPos, KPos, fcm, k, ignore_index) ==
    IF KeyMissing(fcm, k)
    THEN [raised |-> "ValueError", returned |-> <<>>]
    ELSE [raised |-> "",
          returned |-> <<[dataset |-> dataset, QPos |-> QPos, KPos |-> KPos,
                          fcm_prob |-> fcm, key |-> k, ignore_id |-> ignore_index]>>]

\* lines 196-197: return_batches is left to the default of the constructor
BatchEncodingDataset_shard(self, i, n) ==
    [raised |-> "",
     returned |-> <<BatchEncodingDataset(ChunkCacheShard(self.cache, i, n), FALSE)>>]

\* lines 139-143
TokenSeqDataset_shard(self, i, n) ==
    LET r == shard(self.doc_cache, i, n)
    IN  IF r.raised # "" THEN [raised |-> r.raised, returned |-> <<>>]
        ELSE [raised |-> "",
              returned |-> <<TokenSeqDataset(r.returned[1], self.seq_len, self.stride)>>]

\* lines 91-94
CausalLmDataset_shard(self, i, n) ==
    LET r == TokenSeqDataset_shard(self.dataset, i, n)
    IN  IF r.raised # "" THEN r
        ELSE CausalLmDataset(r.returned[1], self.QPos, self.KPos, self.fcm_prob,
                             self.key, self.ignore_id)

IsCausalLmDataset(d) == "dataset" \in DOMAIN d
IsTokenSeqDataset(d) == "doc_cache" \in DOMAIN d
IsBatchEncodingDataset(d) == "return_batches" \in DOMAIN d
IsTokenizedDocumentCache(d) == "flatten_docs" \in DOMAIN d

\* d.shard(i, n), by the class of d
DatasetShard(d, i, n) ==
    IF IsCausalLmDataset(d) THEN CausalLmDataset_shard(d, i, n)
    ELSE IF IsTokenSeqDataset(d) THEN TokenSeqDataset_shard(d, i, n)
    ELSE IF IsBatchEncodingDataset(d) THEN BatchEncodingDataset_shard(d, i, n)
    ELSE LET r == shard(d, i, n) IN [raised |-> r.raised, returned |-> r.returned]

\* the objects tried, each as its constructor leaves it
DocumentCaches == {[chunk_cache |-> "chunk_cache", flatten_docs |-> f] : f \in BOOLEAN}
BatchEncodingDatasets == {BatchEncodingDataset("chunk_cache", b) : b \in BOOLEAN}
TokenSeqDatasets ==
    {TokenSeqDataset(c, sl, st) : c \in DocumentCaches, sl \in {2, 8}, st \in {0, 2}}
CausalLmDatasets ==
    {r.returned[1] :
        r \in {c \in {CausalLmDataset(d, "position", "key_position", f, k, ig) :
                         d \in TokenSeqDatasets, f \in {0, 5},
                         k \in {<<>>} \cup {<<rk>> : rk \in RootKeys},
                         ig \in {<<>>, <<Sentinel>>}} : c.raised = ""}}
Datasets == DocumentCaches \cup BatchEncodingDatasets \cup TokenSeqDatasets \cup CausalLmDatasets

\* the arguments of shard() tried
ShardArgs == [shard_id : 0..2, num_shards : 1..2]

InitWrap ==
    /\ ds \in Datasets
    /\ ds_orig = ds
    /\ ds_args \in ShardArgs
    /\ ds_ret = <<>>
    /\ seq_len = 0
    /\ stride = 0
    /\ IdleSeq
    /\ IdleGroup
    /\ IdleTok
    /\ IdleCache
    /\ IdleRead
    /\ IdleLm
    /\ IdleView
    /\ IdleSrc
    /\ IdleProp

\* ds.shard(shard_id, num_shards): no shard method assigns to self
CallDatasetShard ==
    /\ ds_ret = <<>>
    /\ ds_ret' = <<DatasetShard(ds, ds_args.shard_id, ds_args.num_shards)>>
    /\ UNCHANGED <<ds, ds_orig, ds_args>>
    /\ UNCHANGED <<cfgVars, seqVars, groupVars, tokVars, cacheVars, readVars, lmVars,
                   viewVars, srcVars, propVars>>

NextWrap == CallDatasetShard

SpecWrap == InitWrap /\ [][NextWrap]_vars

\* the fields of d other than the source it wraps
OwnFields(d) ==
    IF IsCausalLmDataset(d) THEN {"QPos", "KPos", "fcm_prob", "key", "ignore_id"}
    ELSE IF IsTokenSeqDataset(d) THEN {"seq_len", "stride"}
    ELSE IF IsBatchEncodingDataset(d) THEN {"return_batches"}
    ELSE {"flatten_docs"}

\* C30: the object shard() returns has the fields of the original other
\* than the source: QPos, KPos, fcm_prob, key and ignore_id of a
\* CausalLmDataset, seq_len and stride of a TokenSeqDataset, flatten_docs
\* of a TokenizedDocumentCache, return_batches of a BatchEncodingDataset;
\* the original is as it was.
C30_ShardKeepsFields ==
    (ds_ret # <<>> /\ ds_ret[1].raised = "") =>
        /\ DOMAIN ds_ret[1].returned[1] = DOMAIN ds_orig
        /\ \A f \in OwnFields(ds_orig) : ds_ret[1].returned[1][f] = ds_orig[f]
        /\ ds = ds_orig

-----------------------------------------------------------------------------
(* cached_classproperty (levanter/utils/py_utils.py): a class MyClass    *)
(* with a cached class property `value`, and a subclass MySubclass that  *)
(* inherits the descriptor and so shares its _cache.                     *)

Classes == {"MyClass", "MySubclass"}

MaxAccesses == 4

\* the n-th call of the wrapped function for cls.  The function need not be
\* pure: its result may differ from call to call, and from class to class
Func(cls, n) == <<cls, n>>

\* a descriptor that calls the function at every access
GetUncached(cache, calls, objtype) ==
    LET v == Func(objtype, calls[objtype] + 1)
    IN  [cache |-> [c \in DOMAIN cache \cup {objtype} |-> IF c = objtype THEN v ELSE cache[c]],
         calls |-> [calls EXCEPT ![objtype] = @ + 1],
         value |-> v]

\* lines 124-127: __get__(self, obj, objtype)
__get__(cache, calls, objtype) ==
    IF objtype \notin DOMAIN cache
    THEN LET v == Func(objtype, calls[objtype] + 1)
         IN  [cache |-> [c \in DOMAIN cache \cup {objtype} |->
                            IF c = objtype THEN v ELSE cache[c]],
              calls |-> [calls EXCEPT ![objtype] = @ + 1],
              value |-> v]
    ELSE [cache |-> cache, calls |-> calls, value |-> cache[objtype]]

\* lines 120-122 and 140-141: the descriptor as cached_classproperty makes it
InitProp ==
    /\ _cache = <<>>
    /\ func_calls = [c \in Classes |-> 0]
    /\ accesses = <<>>
    /\ seq_len = 0
    /\ stride = 0
    /\ IdleSeq
    /\ IdleGroup
    /\ IdleTok
    /\ IdleCache
    /\ IdleRead
    /\ IdleLm
    /\ IdleView
    /\ IdleSrc
    /\ IdleWrap

\* cls.value or cls().value: Python calls __get__ with objtype = cls
Access(cls, via) ==
    /\ Len(accesses) < MaxAccesses
    /\ LET r == __get__(_cache, func_calls, cls)
       IN  /\ _cache' = r.cache
           /\ func_calls' = r.calls
           /\ accesses' = Append(accesses, [objtype |-> cls, via |-> via, value |-> r.value])
    /\ UNCHANGED <<cfgVars, seqVars, groupVars, tokVars, cacheVars, readVars, lmVars,
                   viewVars, srcVars, wrapVars>>

\* lines 129-133: cls().value = x and del cls().value raise AttributeError
SetOrDelete(cls, via) ==
    /\ Len(accesses) < MaxAccesses
    /\ accesses' = Append(accesses, [objtype |-> cls, via |-> via, value |-> "AttributeError"])
    /\ UNCHANGED <<_cache, func_calls>>
    /\ UNCHANGED <<cfgVars, seqVars, groupVars, tokVars, cacheVars, readVars, lmVars,
                   viewVars, srcVars, wrapVars>>

NextProp ==
    \/ \E cls \in Classes : \E via \in {"class", "instance"} : Access(cls, via)
    \/ \E cls \in Classes : \E via \in {"set", "delete"} : SetOrDelete(cls, via)

SpecProp == InitProp /\ [][NextProp]_vars

\* the accesses that read the property
Reads == {i \in 1..Len(accesses) : accesses[i].via \in {"class", "instance"}}

\* C22: over any sequence of accesses through a class or its instances
\* the wrapped function is called at most once for an owner class, namely
\* at its first read, and every read returns that first value; a subclass
\* gets a computation of its own, whatever its parent has cached.
C22_ComputedOncePerClass ==
    /\ \A c \in Classes :
          /\ func_calls[c] <= 1
          /\ func_calls[c] = 1 <=> \E i \in Reads : accesses[i].objtype = c
          /\ c \in DOMAIN _cache <=> func_calls[c] = 1
    /\ \A i \in Reads :
          /\ accesses[i].value = Func(accesses[i].objtype, 1)
          /\ _cache[accesses[i].objtype] = accesses[i].value
    /\ \A i, j \in Reads :
          accesses[i].objtype # accesses[j].objtype => accesses[i].value # accesses[j].value

\* the parent read twice, through the class and an instance, then the
\* subclass read twice
C22_Witness ==
    /\ Len(accesses) = 4
    /\ accesses[1].objtype = "MyClass" /\ accesses[1].via = "class"
    /\ accesses[2].objtype = "MyClass" /\ accesses[2].via = "instance"
    /\ accesses[3].objtype = "MySubclass" /\ accesses[4].objtype = "MySubclass"
    /\ func_calls = [c \in Classes |-> 1]

=============================================================================
